---------------------------- MODULE Spec2Model ----------------------------
(***************************************************************************)
(* Temperature checker: the decision engine (temp_checker.py) and the      *)
(* admin utility (set_window_state.py) acting on one SQLite store.         *)
(*                                                                         *)
(* Time is in whole seconds since midnight of day 0.  Temperatures are     *)
(* whole degrees Fahrenheit.  Python's None is the string "none" for the   *)
(* optional strings and NoTime for the optional datetimes.                 *)
(***************************************************************************)
EXTENDS Integers, Sequences, FiniteSets, TLC

VARIABLES
    app_state,              \* the app_state row with id = 1 (or its absence)
    temperature_readings,   \* the temperature_readings table: row count, newest row
    notifications,          \* the notifications table: row count, newest row
    clock,                  \* the system wall clock (datetime.now())
    config,                 \* the Config of the process
    inv,                    \* what the last operation did (observation only)
    call,                   \* the last function applied on its own: arguments, result
    runs,                   \* overlapping runs of temp_checker.py: position and locals of each
    hist                    \* what the runs so far did: successful sends, window changes

vars == <<app_state, temperature_readings, notifications, clock, config, inv, call, runs, hist>>

---------------------------------------------------------------------------
(* Bounds of the model *)

(* check_and_notify is not run once temperature_readings holds MaxReadings rows *)
MaxReadings == 2

---------------------------------------------------------------------------
(* Values *)

None == "none"
NoTime == -1
SecondsPerDay == 86400

WindowStates == {"open", "closed"}
Modes == {"cooling", "heating"}
NotificationTypes == {"close_windows", "open_windows"}

(* Config defaults, _load_config_from_env *)
CLOSE_WINDOWS_TEMP == 78
OPEN_WINDOWS_TEMP == 76
FORECAST_HIGH_THRESHOLD == 80
HEATING_CLOSE_TEMP == 55
HEATING_OPEN_TEMP == 65
HEATING_FORECAST_LOW_THRESHOLD == 70
QUIET_START_HOUR == 22
QUIET_START_MINUTE == 30
QUIET_END_HOUR == 7
QUIET_END_MINUTE == 0
DUPLICATE_WINDOW_SECONDS == 1800

WeatherData(c, h, l) == [current_temp |-> c, daily_high |-> h, daily_low |-> l]

NoWeatherData == WeatherData(0, 0, 0)

AppState(w, m, t, at) ==
    [window_state |-> w, mode |-> m,
     last_notification_type |-> t, last_notification_time |-> at]

Config(token, chat_id) ==
    [zip_code |-> "10001",
     telegram_token |-> token,
     telegram_chat_id |-> chat_id,
     close_windows_temp |-> CLOSE_WINDOWS_TEMP,
     open_windows_temp |-> OPEN_WINDOWS_TEMP,
     forecast_high_threshold |-> FORECAST_HIGH_THRESHOLD,
     heating_close_temp |-> HEATING_CLOSE_TEMP,
     heating_open_temp |-> HEATING_OPEN_TEMP,
     heating_forecast_low_threshold |-> HEATING_FORECAST_LOW_THRESHOLD,
     quiet_start_hour |-> QUIET_START_HOUR,
     quiet_start_minute |-> QUIET_START_MINUTE,
     quiet_end_hour |-> QUIET_END_HOUR,
     quiet_end_minute |-> QUIET_END_MINUTE,
     default_mode |-> "cooling"]

---------------------------------------------------------------------------
(* DatabaseAdapter: the SQLite store *)

Row(w, m, t, at, upd) ==
    [exists |-> TRUE, window_state |-> w, mode |-> m,
     last_notification_type |-> t, last_notification_time |-> at,
     updated_at |-> upd]

(* No row with id = 1: SELECT ... WHERE id = 1 fetches nothing. *)
NoRow ==
    [exists |-> FALSE, window_state |-> None, mode |-> None,
     last_notification_type |-> None, last_notification_time |-> NoTime,
     updated_at |-> NoTime]

(* The row the schema inserts: (1, 'closed', 'cooling'), the rest NULL. *)
SchemaRow == Row("closed", "cooling", None, NoTime, NoTime)

(* last_notification_time is stored with isoformat() and read back with
   fromisoformat(): the same instant, since the model's instants are whole
   seconds; a NULL or empty column reads as None. *)
(* get_app_state whose default record is always in cooling mode *)
get_app_state_cooling_default(row, default_mode) ==
    IF row.exists
    THEN AppState(row.window_state, row.mode, row.last_notification_type,
                  IF row.last_notification_time # NoTime
                  THEN row.last_notification_time ELSE NoTime)
    ELSE AppState("closed", "cooling", None, NoTime)

get_app_state(row, default_mode) ==
    IF row.exists
    THEN AppState(row.window_state, row.mode, row.last_notification_type,
                  IF row.last_notification_time # NoTime
                  THEN row.last_notification_time ELSE NoTime)
    ELSE AppState("closed", default_mode, None, NoTime)

(* update_app_state that stamps updated_at only with a new window state *)
update_app_state_stamp_with_window(row, window_state, mode, last_notification_type, now) ==
    LET r1 == IF window_state # None
              THEN [row EXCEPT !.window_state = window_state] ELSE row
        r2 == IF mode # None THEN [r1 EXCEPT !.mode = mode] ELSE r1
        r3 == IF last_notification_type # None
              THEN [r2 EXCEPT !.last_notification_type = last_notification_type,
                              !.last_notification_time = now]
              ELSE r2
    IN  IF window_state # None /\ row.exists
        THEN [r3 EXCEPT !.updated_at = now] ELSE r3

(* update_app_state with mode defaulting to 'cooling' instead of None *)
update_app_state_default_mode(row, window_state, mode, last_notification_type, now) ==
    LET md == IF mode # None THEN mode ELSE "cooling"
        r1 == IF window_state # None
              THEN [row EXCEPT !.window_state = window_state] ELSE row
        r2 == [r1 EXCEPT !.mode = md]
        r3 == IF last_notification_type # None
              THEN [r2 EXCEPT !.last_notification_type = last_notification_type,
                              !.last_notification_time = now]
              ELSE r2
    IN  IF row.exists THEN [r3 EXCEPT !.updated_at = now] ELSE row

(* UPDATE app_state SET <the provided columns>, updated_at WHERE id = 1;
   now is what datetime.now() returns in the call. *)
update_app_state(row, window_state, mode, last_notification_type, now) ==
    LET r1 == IF window_state # None
              THEN [row EXCEPT !.window_state = window_state] ELSE row
        r2 == IF mode # None THEN [r1 EXCEPT !.mode = mode] ELSE r1
        r3 == IF last_notification_type # None
              THEN [r2 EXCEPT !.last_notification_type = last_notification_type,
                              !.last_notification_time = now]
              ELSE r2
        updates == window_state # None \/ mode # None
                   \/ last_notification_type # None
    IN  IF updates /\ row.exists THEN [r3 EXCEPT !.updated_at = now] ELSE row

(* The two history tables are insert-only and no code path of the engine
   reads them back: the model keeps, of each, the number of rows and the
   newest row. *)
NoReading ==
    [current_temp |-> 0, daily_high_forecast |-> 0, daily_low_forecast |-> 0,
     zip_code |-> ""]

EmptyReadings == [count |-> 0, last |-> NoReading]

(* record_temperature with the two forecast columns exchanged *)
record_temperature_high_low_swapped(readings, weather_data, zip_code) ==
    [count |-> readings.count + 1,
     last |-> [current_temp |-> weather_data.current_temp,
               daily_high_forecast |-> weather_data.daily_low,
               daily_low_forecast |-> weather_data.daily_high,
               zip_code |-> zip_code]]

record_temperature(readings, weather_data, zip_code) ==
    [count |-> readings.count + 1,
     last |-> [current_temp |-> weather_data.current_temp,
               daily_high_forecast |-> weather_data.daily_high,
               daily_low_forecast |-> weather_data.daily_low,
               zip_code |-> zip_code]]

record_notification(notifs, notification_type, current_temp, forecast_high, forecast_low, message, sent_successfully, error_message) ==
    [count |-> notifs.count + 1,
     last |-> [notification_type |-> notification_type,
               current_temp |-> current_temp,
               forecast_high |-> forecast_high,
               forecast_low |-> forecast_low,
               message |-> message,
               sent_successfully |-> sent_successfully,
               error_message |-> error_message]]

---------------------------------------------------------------------------
(* TelegramAdapter *)

(* send_message without the test of the credentials *)
send_message_no_credential_check(message, token, chat_id, net) == net = "200"

(* What the HTTP POST does: status 200, another status, or an exception. *)
NetOutcomes == {"200", "500", "exception"}

send_message(message, token, chat_id, net) ==
    IF token = "" \/ chat_id = "" THEN FALSE
    ELSE net = "200"

(* The HTTP requests send_message makes *)
send_message_requests(message, token, chat_id, net) ==
    IF token = "" \/ chat_id = "" THEN <<>>
    ELSE <<"POST api.telegram.org sendMessage">>

---------------------------------------------------------------------------
(* WeatherAdapter *)

(* What a GET does: status 200 with the expected JSON, status 200 with JSON
   that lacks the expected keys, another status, or an exception
   (connection error, timeout). *)
HttpOutcomes == {"200", "malformed", "500", "exception"}

(* The coordinates the geocoding service gives for a zip code it knows *)
Coordinates == <<407, -740>>

(* Everything is inside the try: whatever goes wrong, (0.0, 0.0). *)
get_coordinates_from_zip(zip_code, geo) ==
    IF geo = "200" THEN Coordinates ELSE <<0, 0>>

(* fetch_weather_data that reads the body of the forecast outside the try,
   whatever the status *)
fetch_weather_data_unguarded(zip_code, geo, api, data) ==
    IF zip_code = ""
    THEN [ok |-> FALSE, data |-> NoWeatherData, raised |-> FALSE]
    ELSE IF get_coordinates_from_zip(zip_code, geo) = <<0, 0>>
    THEN [ok |-> FALSE, data |-> NoWeatherData, raised |-> FALSE]
    ELSE IF api = "200"
    THEN [ok |-> TRUE, data |-> data, raised |-> FALSE]
    ELSE [ok |-> FALSE, data |-> NoWeatherData, raised |-> TRUE]

(* geo and api are what the two GETs do, data the snapshot in the forecast
   when it comes.  raised says that an exception leaves the function. *)
fetch_weather_data(zip_code, geo, api, data) ==
    IF zip_code = ""
    THEN [ok |-> FALSE, data |-> NoWeatherData, raised |-> FALSE]
    ELSE IF get_coordinates_from_zip(zip_code, geo) = <<0, 0>>
    THEN [ok |-> FALSE, data |-> NoWeatherData, raised |-> FALSE]
    ELSE IF api = "200"
    THEN [ok |-> TRUE, data |-> data, raised |-> FALSE]
    ELSE [ok |-> FALSE, data |-> NoWeatherData, raised |-> FALSE]

---------------------------------------------------------------------------
(* TemperatureChecker: the decision engine *)

(* datetime.time(hour, minute): second 0 of that minute, as seconds of the day *)
time(hour, minute) == (hour * 60 + minute) * 60

(* datetime.time(): the time of day of an instant *)
time_of(current_time) == current_time % SecondsPerDay

(* is_quiet_hours comparing hours and minutes only, the seconds dropped *)
is_quiet_hours_minutes_only(cfg, current_time) ==
    LET time_only == (time_of(current_time) \div 60) * 60
        quiet_start == time(cfg.quiet_start_hour, cfg.quiet_start_minute)
        quiet_end == time(cfg.quiet_end_hour, cfg.quiet_end_minute)
    IN  IF quiet_start > quiet_end
        THEN time_only >= quiet_start \/ time_only <= quiet_end
        ELSE quiet_start <= time_only /\ time_only <= quiet_end

(* is_quiet_hours with the end of the window excluded *)
is_quiet_hours_end_excluded(cfg, current_time) ==
    LET time_only == time_of(current_time)
        quiet_start == time(cfg.quiet_start_hour, cfg.quiet_start_minute)
        quiet_end == time(cfg.quiet_end_hour, cfg.quiet_end_minute)
    IN  IF quiet_start > quiet_end
        THEN time_only >= quiet_start \/ time_only < quiet_end
        ELSE quiet_start <= time_only /\ time_only < quiet_end

is_quiet_hours(cfg, current_time) ==
    LET time_only == time_of(current_time)
        quiet_start == time(cfg.quiet_start_hour, cfg.quiet_start_minute)
        quiet_end == time(cfg.quiet_end_hour, cfg.quiet_end_minute)
    IN  IF quiet_start > quiet_end
        THEN time_only >= quiet_start \/ time_only <= quiet_end
        ELSE quiet_start <= time_only /\ time_only <= quiet_end

(* should_send_notification without the quiet-hours check *)
should_send_notification_no_quiet(cfg, notification_type, st, current_time) ==
    IF /\ st.last_notification_type = notification_type
       /\ st.last_notification_time # NoTime
       /\ current_time - st.last_notification_time < DUPLICATE_WINDOW_SECONDS
    THEN FALSE
    ELSE TRUE

(* should_send_notification with the window closed at its end: <= 1800 *)
should_send_notification_window_inclusive(cfg, notification_type, st, current_time) ==
    IF is_quiet_hours(cfg, current_time) THEN FALSE
    ELSE IF /\ st.last_notification_type = notification_type
            /\ st.last_notification_time # NoTime
            /\ current_time - st.last_notification_time <= DUPLICATE_WINDOW_SECONDS
         THEN FALSE
         ELSE TRUE

(* should_send_notification comparing the time only, whatever the type *)
should_send_notification_any_type(cfg, notification_type, st, current_time) ==
    IF is_quiet_hours(cfg, current_time) THEN FALSE
    ELSE IF /\ st.last_notification_time # NoTime
            /\ current_time - st.last_notification_time < DUPLICATE_WINDOW_SECONDS
         THEN FALSE
         ELSE TRUE

should_send_notification(cfg, notification_type, st, current_time) ==
    IF is_quiet_hours(cfg, current_time) THEN FALSE
    ELSE IF /\ st.last_notification_type = notification_type
            /\ st.last_notification_time # NoTime
            /\ current_time - st.last_notification_time < DUPLICATE_WINDOW_SECONDS
         THEN FALSE
         ELSE TRUE

(* create_notification_message with one template for opening in both modes *)
create_notification_message_one_open_template(notification_type, weather_data, mode) ==
    LET text == IF notification_type = "close_windows"
                THEN IF mode = "cooling"
                     THEN <<"thermometer", "Time to close the windows and turn on the AC!">>
                     ELSE <<"cold face", "Getting too cold! Time to close the windows and turn on heat.">>
                ELSE <<"wind face", "Perfect time to open the windows and enjoy the fresh air!">>
    IN  [emoji |-> text[1],
         title |-> IF notification_type = "close_windows" THEN "Close" ELSE "Open",
         current_temp |-> weather_data.current_temp,
         daily_high |-> weather_data.daily_high,
         reason |-> text[2]]

create_notification_message(notification_type, weather_data, mode) ==
    LET text == IF notification_type = "close_windows"
                THEN IF mode = "cooling"
                     THEN <<"thermometer", "Time to close the windows and turn on the AC!">>
                     ELSE <<"cold face", "Getting too cold! Time to close the windows and turn on heat.">>
                ELSE IF mode = "cooling"
                     THEN <<"wind face", "Perfect time to open the windows and enjoy the fresh air!">>
                     ELSE <<"sun", "Nice and warm! Perfect time to open the windows.">>
    IN  [emoji |-> text[1],
         title |-> IF notification_type = "close_windows" THEN "Close" ELSE "Open",
         current_temp |-> weather_data.current_temp,
         daily_high |-> weather_data.daily_high,
         reason |-> text[2]]

(* check_cooling_mode_conditions with one threshold for both legs: windows
   open at or below close_windows_temp *)
check_cooling_mode_conditions_single_threshold(cfg, weather_data, st) ==
    IF /\ st.window_state = "open"
       /\ weather_data.current_temp >= cfg.close_windows_temp
       /\ weather_data.daily_high > cfg.forecast_high_threshold
    THEN "close_windows"
    ELSE IF /\ st.window_state = "closed"
            /\ weather_data.current_temp <= cfg.close_windows_temp
         THEN "open_windows"
         ELSE None

(* check_cooling_mode_conditions whose close leg does not look at window_state *)
check_cooling_mode_conditions_any_state(cfg, weather_data, st) ==
    IF /\ weather_data.current_temp >= cfg.close_windows_temp
       /\ weather_data.daily_high > cfg.forecast_high_threshold
    THEN "close_windows"
    ELSE IF /\ st.window_state = "closed"
            /\ weather_data.current_temp <= cfg.open_windows_temp
         THEN "open_windows"
         ELSE None

(* check_cooling_mode_conditions with daily_high >= forecast_high_threshold *)
check_cooling_mode_conditions_high_inclusive(cfg, weather_data, st) ==
    IF /\ st.window_state = "open"
       /\ weather_data.current_temp >= cfg.close_windows_temp
       /\ weather_data.daily_high >= cfg.forecast_high_threshold
    THEN "close_windows"
    ELSE IF /\ st.window_state = "closed"
            /\ weather_data.current_temp <= cfg.open_windows_temp
         THEN "open_windows"
         ELSE None

check_cooling_mode_conditions(cfg, weather_data, st) ==
    IF /\ st.window_state = "open"
       /\ weather_data.current_temp >= cfg.close_windows_temp
       /\ weather_data.daily_high > cfg.forecast_high_threshold
    THEN "close_windows"
    ELSE IF /\ st.window_state = "closed"
            /\ weather_data.current_temp <= cfg.open_windows_temp
         THEN "open_windows"
         ELSE None

(* check_heating_mode_conditions with daily_high <= heating_forecast_low_threshold *)
check_heating_mode_conditions_high_inclusive(cfg, weather_data, st) ==
    IF /\ st.window_state = "open"
       /\ weather_data.current_temp <= cfg.heating_close_temp
    THEN "close_windows"
    ELSE IF /\ st.window_state = "closed"
            /\ weather_data.current_temp >= cfg.heating_open_temp
            /\ weather_data.daily_high <= cfg.heating_forecast_low_threshold
         THEN "open_windows"
         ELSE None

(* check_heating_mode_conditions that does not look at the forecast *)
check_heating_mode_conditions_no_forecast(cfg, weather_data, st) ==
    IF /\ st.window_state = "open"
       /\ weather_data.current_temp <= cfg.heating_close_temp
    THEN "close_windows"
    ELSE IF /\ st.window_state = "closed"
            /\ weather_data.current_temp >= cfg.heating_open_temp
         THEN "open_windows"
         ELSE None

check_heating_mode_conditions(cfg, weather_data, st) ==
    IF /\ st.window_state = "open"
       /\ weather_data.current_temp <= cfg.heating_close_temp
    THEN "close_windows"
    ELSE IF /\ st.window_state = "closed"
            /\ weather_data.current_temp >= cfg.heating_open_temp
            /\ weather_data.daily_high < cfg.heating_forecast_low_threshold
         THEN "open_windows"
         ELSE None

(* process_notification that updates the state whatever send_message returned *)
process_notification_commit_always(db, cfg, notification_type, weather_data, st, net, commit_time) ==
    LET message == create_notification_message(notification_type, weather_data, st.mode)
        success == send_message(message, cfg.telegram_token,
                                cfg.telegram_chat_id, net)
        recorded == record_notification(db.notifications, notification_type,
                        weather_data.current_temp, weather_data.daily_high,
                        weather_data.daily_low, message, success, None)
        new_window_state == IF notification_type = "close_windows"
                            THEN "closed" ELSE "open"
    IN  [app_state |-> update_app_state(db.app_state, new_window_state,
                                        None, notification_type, commit_time),
         temperature_readings |-> db.temperature_readings,
         notifications |-> recorded,
         success |-> success,
         message |-> message,
         calls |-> <<"create_notification_message", "send_message",
                     "record_notification", "update_app_state">>]

(* process_notification that sets window_state before it knows the outcome *)
process_notification_window_first(db, cfg, notification_type, weather_data, st, net, commit_time) ==
    LET message == create_notification_message(notification_type, weather_data, st.mode)
        success == send_message(message, cfg.telegram_token,
                                cfg.telegram_chat_id, net)
        recorded == record_notification(db.notifications, notification_type,
                        weather_data.current_temp, weather_data.daily_high,
                        weather_data.daily_low, message, success, None)
        new_window_state == IF notification_type = "close_windows"
                            THEN "closed" ELSE "open"
        first == update_app_state(db.app_state, new_window_state, None, None,
                                  commit_time)
    IN  [app_state |-> IF success
                       THEN update_app_state(first, None, None,
                                             notification_type, commit_time)
                       ELSE first,
         temperature_readings |-> db.temperature_readings,
         notifications |-> recorded,
         success |-> success,
         message |-> message,
         calls |-> <<"create_notification_message", "update_app_state", "send_message", "record_notification">>
                      \o (IF success THEN <<"update_app_state">> ELSE <<>>)]

(* process_notification with the two window states exchanged *)
process_notification_states_swapped(db, cfg, notification_type, weather_data, st, net, commit_time) ==
    LET message == create_notification_message(notification_type, weather_data, st.mode)
        success == send_message(message, cfg.telegram_token,
                                cfg.telegram_chat_id, net)
        recorded == record_notification(db.notifications, notification_type,
                        weather_data.current_temp, weather_data.daily_high,
                        weather_data.daily_low, message, success, None)
        new_window_state == IF notification_type = "close_windows"
                            THEN "open" ELSE "closed"
    IN  [app_state |-> IF success
                       THEN update_app_state(db.app_state, new_window_state,
                                             None, notification_type, commit_time)
                       ELSE db.app_state,
         temperature_readings |-> db.temperature_readings,
         notifications |-> recorded,
         success |-> success,
         message |-> message,
         calls |-> <<"create_notification_message", "send_message", "record_notification">>
                      \o (IF success THEN <<"update_app_state">> ELSE <<>>)]

(* process_notification that records the notification only when it was sent *)
process_notification_record_on_success(db, cfg, notification_type, weather_data, st, net, commit_time) ==
    LET message == create_notification_message(notification_type, weather_data, st.mode)
        success == send_message(message, cfg.telegram_token,
                                cfg.telegram_chat_id, net)
        recorded == IF success
                    THEN record_notification(db.notifications, notification_type,
                             weather_data.current_temp, weather_data.daily_high,
                             weather_data.daily_low, message, success, None)
                    ELSE db.notifications
        new_window_state == IF notification_type = "close_windows"
                            THEN "closed" ELSE "open"
    IN  [app_state |-> IF success
                       THEN update_app_state(db.app_state, new_window_state,
                                             None, notification_type, commit_time)
                       ELSE db.app_state,
         temperature_readings |-> db.temperature_readings,
         notifications |-> recorded,
         success |-> success,
         message |-> message,
         calls |-> <<"create_notification_message", "send_message">>
                      \o (IF success
                          THEN <<"record_notification", "update_app_state">>
                          ELSE <<>>)]

(* process_notification that calls send_message again when it failed *)
process_notification_retry(db, cfg, notification_type, weather_data, st, net, commit_time) ==
    LET message == create_notification_message(notification_type, weather_data, st.mode)
        first == send_message(message, cfg.telegram_token,
                              cfg.telegram_chat_id, net)
        success == IF first THEN TRUE
                   ELSE send_message(message, cfg.telegram_token,
                                     cfg.telegram_chat_id, net)
        recorded == record_notification(db.notifications, notification_type,
                        weather_data.current_temp, weather_data.daily_high,
                        weather_data.daily_low, message, success, None)
        new_window_state == IF notification_type = "close_windows"
                            THEN "closed" ELSE "open"
    IN  [app_state |-> IF success
                       THEN update_app_state(db.app_state, new_window_state,
                                             None, notification_type, commit_time)
                       ELSE db.app_state,
         temperature_readings |-> db.temperature_readings,
         notifications |-> recorded,
         success |-> success,
         message |-> message,
         calls |-> <<"create_notification_message", "send_message">>
                      \o (IF first THEN <<>> ELSE <<"send_message">>)
                      \o <<"record_notification">>
                      \o (IF success THEN <<"update_app_state">> ELSE <<>>)]

(* process_notification that stamps the notification type and time when
   the send failed, and the window state as well when it succeeded *)
process_notification_stamp_on_failure(db, cfg, notification_type, weather_data, st, net, commit_time) ==
    LET message == create_notification_message(notification_type, weather_data, st.mode)
        success == send_message(message, cfg.telegram_token,
                                cfg.telegram_chat_id, net)
        recorded == record_notification(db.notifications, notification_type,
                        weather_data.current_temp, weather_data.daily_high,
                        weather_data.daily_low, message, success, None)
        new_window_state == IF notification_type = "close_windows"
                            THEN "closed" ELSE "open"
    IN  [app_state |-> IF success
                       THEN update_app_state(db.app_state, new_window_state,
                                             None, notification_type, commit_time)
                       ELSE update_app_state(db.app_state, None, None,
                                             notification_type, commit_time),
         temperature_readings |-> db.temperature_readings,
         notifications |-> recorded,
         success |-> success,
         message |-> message,
         calls |-> <<"create_notification_message", "send_message",
                     "record_notification", "update_app_state">>]

(* process_notification that commits the notification type and time but
   leaves window_state as it was *)
process_notification_type_only(db, cfg, notification_type, weather_data, st, net, commit_time) ==
    LET message == create_notification_message(notification_type, weather_data, st.mode)
        success == send_message(message, cfg.telegram_token,
                                cfg.telegram_chat_id, net)
        recorded == record_notification(db.notifications, notification_type,
                        weather_data.current_temp, weather_data.daily_high,
                        weather_data.daily_low, message, success, None)
    IN  [app_state |-> IF success
                       THEN update_app_state(db.app_state, None,
                                             None, notification_type, commit_time)
                       ELSE db.app_state,
         temperature_readings |-> db.temperature_readings,
         notifications |-> recorded,
         success |-> success,
         message |-> message,
         calls |-> <<"create_notification_message", "send_message", "record_notification">>
                      \o (IF success THEN <<"update_app_state">> ELSE <<>>)]

(* db is the store: [app_state, temperature_readings, notifications].
   net is what the network does with the POST, commit_time what
   datetime.now() returns inside update_app_state. *)
process_notification(db, cfg, notification_type, weather_data, st, net, commit_time) ==
    LET message == create_notification_message(notification_type, weather_data, st.mode)
        success == send_message(message, cfg.telegram_token,
                                cfg.telegram_chat_id, net)
        recorded == record_notification(db.notifications, notification_type,
                        weather_data.current_temp, weather_data.daily_high,
                        weather_data.daily_low, message, success, None)
        new_window_state == IF notification_type = "close_windows"
                            THEN "closed" ELSE "open"
    IN  [app_state |-> IF success
                       THEN update_app_state(db.app_state, new_window_state,
                                             None, notification_type, commit_time)
                       ELSE db.app_state,
         temperature_readings |-> db.temperature_readings,
         notifications |-> recorded,
         success |-> success,
         message |-> message,
         calls |-> <<"create_notification_message", "send_message", "record_notification">>
                      \o (IF success THEN <<"update_app_state">> ELSE <<>>)]

(* What check_and_notify leaves behind when it has touched nothing yet. *)
NoAppState == AppState(None, None, None, NoTime)

NoMessage == create_notification_message(None, NoWeatherData, None)

EmptyNotifications ==
    [count |-> 0,
     last |-> [notification_type |-> None, current_temp |-> 0,
               forecast_high |-> 0, forecast_low |-> 0, message |-> NoMessage,
               sent_successfully |-> FALSE, error_message |-> None]]

(* check_and_notify that records the reading before it tests weather_data *)
check_and_notify_reading_first(db, cfg, fetched, net, now, commit_time) ==
    IF ~fetched.ok
    THEN [app_state |-> db.app_state,
          temperature_readings |->
              record_temperature(db.temperature_readings, fetched.data,
                                 cfg.zip_code),
          notifications |-> db.notifications,
          state_read |-> FALSE, loaded |-> NoAppState,
          notification_type |-> None, gate_asked |-> FALSE,
          gate |-> FALSE, sent |-> FALSE, success |-> FALSE,
          message |-> NoMessage,
          calls |-> <<"fetch_weather_data", "record_temperature">>]
    ELSE
    LET weather_data == fetched.data
        db1 == [db EXCEPT !.temperature_readings =
                   record_temperature(db.temperature_readings, weather_data,
                                      cfg.zip_code)]
        st == get_app_state(db1.app_state, cfg.default_mode)
        notification_type ==
            IF st.mode = "cooling"
            THEN check_cooling_mode_conditions(cfg, weather_data, st)
            ELSE IF st.mode = "heating"
                 THEN check_heating_mode_conditions(cfg, weather_data, st)
                 ELSE None
        gate == IF notification_type # None
                THEN should_send_notification(cfg, notification_type, st, now)
                ELSE FALSE
        done == process_notification(db1, cfg, notification_type,
                                     weather_data, st, net, commit_time)
        rules == IF st.mode = "cooling"
                 THEN <<"check_cooling_mode_conditions">>
                 ELSE IF st.mode = "heating"
                      THEN <<"check_heating_mode_conditions">>
                      ELSE <<>>
        before == <<"fetch_weather_data", "record_temperature", "get_app_state">>
                     \o rules
                     \o (IF notification_type # None
                         THEN <<"should_send_notification">> ELSE <<>>)
    IN  IF notification_type # None /\ gate
        THEN [app_state |-> done.app_state,
              temperature_readings |-> done.temperature_readings,
              notifications |-> done.notifications,
              state_read |-> TRUE, loaded |-> st,
              notification_type |-> notification_type, gate_asked |-> TRUE,
              gate |-> TRUE, sent |-> TRUE, success |-> done.success,
              message |-> done.message,
              calls |-> before \o done.calls]
        ELSE [app_state |-> db1.app_state,
              temperature_readings |-> db1.temperature_readings,
              notifications |-> db1.notifications,
              state_read |-> TRUE, loaded |-> st,
              notification_type |-> notification_type,
              gate_asked |-> notification_type # None,
              gate |-> FALSE, sent |-> FALSE, success |-> FALSE,
              message |-> NoMessage,
              calls |-> before]

(* check_and_notify that applies the cooling rules to every mode but
   'heating' *)
check_and_notify_cooling_otherwise(db, cfg, fetched, net, now, commit_time) ==
    IF ~fetched.ok
    THEN [app_state |-> db.app_state,
          temperature_readings |-> db.temperature_readings,
          notifications |-> db.notifications,
          state_read |-> FALSE, loaded |-> NoAppState,
          notification_type |-> None, gate_asked |-> FALSE,
          gate |-> FALSE, sent |-> FALSE, success |-> FALSE,
          message |-> NoMessage,
          calls |-> <<"fetch_weather_data">>]
    ELSE
    LET weather_data == fetched.data
        db1 == [db EXCEPT !.temperature_readings =
                   record_temperature(db.temperature_readings, weather_data,
                                      cfg.zip_code)]
        st == get_app_state(db1.app_state, cfg.default_mode)
        notification_type ==
            IF st.mode = "heating"
            THEN check_heating_mode_conditions(cfg, weather_data, st)
            ELSE check_cooling_mode_conditions(cfg, weather_data, st)
        gate == IF notification_type # None
                THEN should_send_notification(cfg, notification_type, st, now)
                ELSE FALSE
        done == process_notification(db1, cfg, notification_type,
                                     weather_data, st, net, commit_time)
        rules == IF st.mode = "heating"
                 THEN <<"check_heating_mode_conditions">>
                 ELSE <<"check_cooling_mode_conditions">>
        before == <<"fetch_weather_data", "record_temperature", "get_app_state">>
                     \o rules
                     \o (IF notification_type # None
                         THEN <<"should_send_notification">> ELSE <<>>)
    IN  IF notification_type # None /\ gate
        THEN [app_state |-> done.app_state,
              temperature_readings |-> done.temperature_readings,
              notifications |-> done.notifications,
              state_read |-> TRUE, loaded |-> st,
              notification_type |-> notification_type, gate_asked |-> TRUE,
              gate |-> TRUE, sent |-> TRUE, success |-> done.success,
              message |-> done.message,
              calls |-> before \o done.calls]
        ELSE [app_state |-> db1.app_state,
              temperature_readings |-> db1.temperature_readings,
              notifications |-> db1.notifications,
              state_read |-> TRUE, loaded |-> st,
              notification_type |-> notification_type,
              gate_asked |-> notification_type # None,
              gate |-> FALSE, sent |-> FALSE, success |-> FALSE,
              message |-> NoMessage,
              calls |-> before]

(* fetched is what WeatherInterface.fetch_weather_data returned: [ok, data],
   ok = FALSE for None.  now is what time_provider.now() returns in
   should_send_notification.  The result is the store afterwards and what
   the run did: whether it read the state, the type the rules proposed,
   whether the gate was asked and what it said, whether send_message was
   called and what it returned, and the calls it made, in order. *)
check_and_notify(db, cfg, fetched, net, now, commit_time) ==
    IF ~fetched.ok
    THEN [app_state |-> db.app_state,
          temperature_readings |-> db.temperature_readings,
          notifications |-> db.notifications,
          state_read |-> FALSE, loaded |-> NoAppState,
          notification_type |-> None, gate_asked |-> FALSE,
          gate |-> FALSE, sent |-> FALSE, success |-> FALSE,
          message |-> NoMessage,
          calls |-> <<"fetch_weather_data">>]
    ELSE
    LET weather_data == fetched.data
        db1 == [db EXCEPT !.temperature_readings =
                   record_temperature(db.temperature_readings, weather_data,
                                      cfg.zip_code)]
        st == get_app_state(db1.app_state, cfg.default_mode)
        notification_type ==
            IF st.mode = "cooling"
            THEN check_cooling_mode_conditions(cfg, weather_data, st)
            ELSE IF st.mode = "heating"
                 THEN check_heating_mode_conditions(cfg, weather_data, st)
                 ELSE None
        gate == IF notification_type # None
                THEN should_send_notification(cfg, notification_type, st, now)
                ELSE FALSE
        done == process_notification(db1, cfg, notification_type,
                                     weather_data, st, net, commit_time)
        rules == IF st.mode = "cooling"
                 THEN <<"check_cooling_mode_conditions">>
                 ELSE IF st.mode = "heating"
                      THEN <<"check_heating_mode_conditions">>
                      ELSE <<>>
        before == <<"fetch_weather_data", "record_temperature", "get_app_state">>
                     \o rules
                     \o (IF notification_type # None
                         THEN <<"should_send_notification">> ELSE <<>>)
    IN  IF notification_type # None /\ gate
        THEN [app_state |-> done.app_state,
              temperature_readings |-> done.temperature_readings,
              notifications |-> done.notifications,
              state_read |-> TRUE, loaded |-> st,
              notification_type |-> notification_type, gate_asked |-> TRUE,
              gate |-> TRUE, sent |-> TRUE, success |-> done.success,
              message |-> done.message,
              calls |-> before \o done.calls]
        ELSE [app_state |-> db1.app_state,
              temperature_readings |-> db1.temperature_readings,
              notifications |-> db1.notifications,
              state_read |-> TRUE, loaded |-> st,
              notification_type |-> notification_type,
              gate_asked |-> notification_type # None,
              gate |-> FALSE, sent |-> FALSE, success |-> FALSE,
              message |-> NoMessage,
              calls |-> before]

---------------------------------------------------------------------------
(* set_window_state.py: the admin utility.  Each function runs one UPDATE
   ... WHERE id = 1, which changes nothing when the row is absent. *)

(* set_window_state that clears the last notification as well *)
set_window_state_clears_history(row, state, now) ==
    IF row.exists
    THEN [row EXCEPT !.window_state = state,
                     !.last_notification_type = None,
                     !.last_notification_time = NoTime,
                     !.updated_at = now]
    ELSE row

set_window_state(row, state, now) ==
    IF row.exists
    THEN [row EXCEPT !.window_state = state, !.updated_at = now]
    ELSE row

set_mode(row, mode, now) ==
    IF row.exists
    THEN [row EXCEPT !.mode = mode, !.updated_at = now]
    ELSE row

(* reset_notification_state that stamps updated_at and clears nothing *)
reset_notification_state_stamp_only(row, now) ==
    IF row.exists THEN [row EXCEPT !.updated_at = now] ELSE row

(* reset_notification_state that clears last_notification_type only *)
reset_notification_state_type_only(row, now) ==
    IF row.exists
    THEN [row EXCEPT !.last_notification_type = None, !.updated_at = now]
    ELSE row

reset_notification_state(row, now) ==
    IF row.exists
    THEN [row EXCEPT !.last_notification_type = None,
                     !.last_notification_time = NoTime,
                     !.updated_at = now]
    ELSE row

show_status(row) == row

(* str.lower() on the words the model passes *)
lower(s) == IF s = "Heating" THEN "heating" ELSE s

(* main that takes 'mode' without a good value for 'mode cooling' *)
admin_main_mode_default(row, argv, now) ==
    IF Len(argv) < 1
    THEN [app_state |-> row, exit_code |-> 1, output |-> "Usage:"]
    ELSE
    LET command == lower(argv[1])
    IN  IF command = "status"
        THEN [app_state |-> show_status(row), exit_code |-> 0,
              output |-> "status"]
        ELSE IF command \in {"open", "closed"}
        THEN [app_state |-> set_window_state(row, command, now),
              exit_code |-> 0, output |-> "Window state set to"]
        ELSE IF command = "mode"
        THEN IF Len(argv) > 1 /\ lower(argv[2]) \in {"cooling", "heating"}
             THEN [app_state |-> set_mode(row, lower(argv[2]), now),
                   exit_code |-> 0, output |-> "Mode set to"]
             ELSE [app_state |-> set_mode(row, "cooling", now),
                   exit_code |-> 0, output |-> "Mode set to"]
        ELSE IF command = "reset"
        THEN [app_state |-> reset_notification_state(row, now),
              exit_code |-> 0, output |-> "Notification state reset"]
        ELSE [app_state |-> row, exit_code |-> 1,
              output |-> "Invalid command"]

(* main of set_window_state.py; argv is sys.argv[1:].  The result is the
   row afterwards, the exit code and the message printed last. *)
admin_main(row, argv, now) ==
    IF Len(argv) < 1
    THEN [app_state |-> row, exit_code |-> 1, output |-> "Usage:"]
    ELSE
    LET command == lower(argv[1])
    IN  IF command = "status"
        THEN [app_state |-> show_status(row), exit_code |-> 0,
              output |-> "status"]
        ELSE IF command \in {"open", "closed"}
        THEN [app_state |-> set_window_state(row, command, now),
              exit_code |-> 0, output |-> "Window state set to"]
        ELSE IF command = "mode" /\ Len(argv) > 1
        THEN IF lower(argv[2]) \in {"cooling", "heating"}
             THEN [app_state |-> set_mode(row, lower(argv[2]), now),
                   exit_code |-> 0, output |-> "Mode set to"]
             ELSE [app_state |-> row, exit_code |-> 1,
                   output |-> "Mode must be 'cooling' or 'heating'"]
        ELSE IF command = "reset"
        THEN [app_state |-> reset_notification_state(row, now),
              exit_code |-> 0, output |-> "Notification state reset"]
        ELSE [app_state |-> row, exit_code |-> 1,
              output |-> "Invalid command"]

---------------------------------------------------------------------------
(* The environment: weather, network, clock, command lines *)

(* Snapshots the weather source may return, those of the tests: hot with a
   high forecast, warm with a high forecast, cold, warm with a low
   forecast. *)
Snapshots ==
    {WeatherData(78, 85, 65), WeatherData(68, 80, 50), WeatherData(50, 60, 40),
     WeatherData(68, 65, 50)}

WeatherOutcomes ==
    {[ok |-> TRUE, data |-> w] : w \in Snapshots}
        \cup {[ok |-> FALSE, data |-> NoWeatherData]}

hms(h, m, sec) == time(h, m) + sec

(* Instants of day 0 at which an operation may start: the end of the quiet
   window, noon, half past noon (1800 s later), and 23:00 in the quiet
   window. *)
Instants ==
    {hms(7, 0, 0), hms(12, 0, 0), hms(12, 30, 0), hms(23, 0, 0)}

(* Seconds between time_provider.now() and the datetime.now() of the commit. *)
SendDurations == {0, 1}

(* Command lines of the admin utility (sys.argv[1:]) that change the row *)
Argvs ==
    {<<"open">>, <<"closed">>, <<"mode", "cooling">>, <<"mode", "Heating">>,
     <<"reset">>}

(* The Config of the tests: the defaults, with credentials. *)
TestConfig == Config("test_token", "test_chat_id")

(* inv observes the last operation: which program ran (op), the instant it
   started (now), and what it did.  after_failed says that the operation
   before this run was a run whose send failed on the same snapshot. *)
Blank ==
    [op |-> "none", now |-> NoTime, argv |-> <<>>,
     fetched_ok |-> FALSE, weather_data |-> NoWeatherData,
     calls |-> <<>>, after_failed |-> FALSE,
     notification_type |-> None,
     gate_asked |-> FALSE, gate |-> FALSE, sent |-> FALSE, success |-> FALSE,
     exit_code |-> 0, output |-> "",
     fault |-> None, raised |-> FALSE, logged |-> 0]

(* The runs of temp_checker.py that overlap: where each is, and the locals
   of check_and_notify and process_notification it holds.  admin_window
   and admin_mode observe what the admin utility changed window_state and
   mode to since the run read the state row.  For a run followed statement
   by statement: fault is the store operation that raises in it, steps the
   calls it made so far, ended how it ended. *)
Procs == {1, 2}

NoRun ==
    [pc |-> "idle", st |-> NoAppState, weather_data |-> NoWeatherData,
     notification_type |-> None, admin_window |-> None, admin_mode |-> None,
     message |-> NoMessage, success |-> FALSE, fault |-> None,
     steps |-> <<>>, ended |-> None]

NoRuns == [p \in Procs |-> NoRun]

(* hist observes a sequence of runs: the successful sends in order (type,
   and the time_provider.now() of the run), how often window_state changed,
   the snapshots the runs observed, and how many runs there were. *)
NoHist == [sends |-> <<>>, flips |-> 0, observed |-> {}, invocations |-> 0]

NoCall ==
    [fn |-> "none", weather_data |-> NoWeatherData, st |-> NoAppState,
     now |-> NoTime, proposed |-> None, answer |-> FALSE, sent |-> FALSE,
     row |-> NoRow, args |-> <<>>, out |-> NoRow,
     changed |-> FALSE, recorded |-> 0, readings |-> 0, msg |-> NoMessage,
     raised |-> FALSE, requests |-> <<>>, notification |-> EmptyNotifications.last]

Init ==
    /\ app_state = SchemaRow
    /\ temperature_readings = EmptyReadings
    /\ notifications = EmptyNotifications
    /\ clock = hms(7, 0, 0)
    /\ config = TestConfig
    /\ inv = Blank
    /\ call = NoCall
    /\ runs = NoRuns
    /\ hist = NoHist

(* The instants at which the next operation may start: now, or later. *)
StartTimes == {t \in Instants \cup {clock} : t >= clock}

(* One run of temp_checker.py, started at t:
   TemperatureChecker().check_and_notify() *)
CheckAndNotify ==
    /\ temperature_readings.count < MaxReadings
    /\ \E t \in StartTimes, fetched \in WeatherOutcomes, net \in NetOutcomes, d \in SendDurations :
         LET db == [app_state |-> app_state,
                    temperature_readings |-> temperature_readings,
                    notifications |-> notifications]
             r == check_and_notify(db, config, fetched, net, t, t + d)
         IN  /\ app_state' = r.app_state
             /\ temperature_readings' = r.temperature_readings
             /\ notifications' = r.notifications
             /\ clock' = IF r.sent THEN t + d ELSE t
             /\ inv' = [Blank EXCEPT
                          !.op = "check", !.now = t,
                          !.fetched_ok = fetched.ok,
                          !.weather_data = fetched.data,
                          !.calls = r.calls,
                          !.after_failed =
                              (/\ inv.op = "check" /\ inv.sent /\ ~inv.success
                               /\ fetched.ok
                               /\ fetched.data = inv.weather_data),
                          !.notification_type = r.notification_type,
                          !.gate_asked = r.gate_asked, !.gate = r.gate,
                          !.sent = r.sent, !.success = r.success]
    /\ UNCHANGED <<config, call, runs, hist>>

(* One run of set_window_state.py, started at t *)
Admin ==
    /\ \E t \in StartTimes, argv \in Argvs :
         LET r == admin_main(app_state, argv, t)
         IN  /\ app_state' = r.app_state
             /\ clock' = t
             /\ inv' = [Blank EXCEPT
                          !.op = "admin", !.now = t, !.argv = argv,
                          !.exit_code = r.exit_code, !.output = r.output]
    /\ UNCHANGED <<temperature_readings, notifications, config, call, runs, hist>>

Next == CheckAndNotify \/ Admin

Spec == Init /\ [][Next]_vars

---------------------------------------------------------------------------
(* The engine's functions applied on their own, once per behaviour, to
   arguments drawn from grids around the thresholds, under several
   configurations. *)

(* A configuration with other thresholds and a quiet window that does not
   wrap midnight. *)
OtherConfig(sh, sm, eh, em) ==
    [TestConfig EXCEPT !.close_windows_temp = 76, !.open_windows_temp = 78,
                       !.forecast_high_threshold = 70,
                       !.heating_close_temp = 65, !.heating_open_temp = 55,
                       !.heating_forecast_low_threshold = 80,
                       !.quiet_start_hour = sh, !.quiet_start_minute = sm,
                       !.quiet_end_hour = eh, !.quiet_end_minute = em]

PureConfigs ==
    {TestConfig, OtherConfig(9, 15, 17, 45), OtherConfig(12, 0, 12, 0),
     OtherConfig(0, 0, 23, 59)}

GridTemps == (54 .. 56) \cup (64 .. 66) \cup (75 .. 79)
GridHighs == {69, 70, 71, 79, 80, 81}
GridSnapshots == {WeatherData(c, h, 50) : c \in GridTemps, h \in GridHighs}

(* Every minute of two days, at second 0 and second 30. *)
GridInstants == {m * 60 + sec : m \in 0 .. 2879, sec \in {0, 30}}

(* What get_app_state can return: any window state and mode, and no last
   notification or one of either type at noon. *)
GridStates ==
    {AppState(w, m, None, NoTime) : w \in WindowStates, m \in Modes}
        \cup {AppState(w, m, t, hms(12, 0, 0)) :
                w \in WindowStates, m \in Modes, t \in NotificationTypes}

RowOf(st) ==
    Row(st.window_state, st.mode, st.last_notification_type,
        st.last_notification_time, st.last_notification_time)

InitPure ==
    /\ app_state = SchemaRow
    /\ temperature_readings = EmptyReadings
    /\ notifications = EmptyNotifications
    /\ clock = hms(7, 0, 0)
    /\ config \in PureConfigs
    /\ inv = Blank
    /\ call = NoCall
    /\ runs = NoRuns
    /\ hist = NoHist

CallCooling ==
    /\ call.fn = "none"
    /\ \E wd \in GridSnapshots, st \in GridStates :
         call' = [NoCall EXCEPT
                    !.fn = "check_cooling_mode_conditions",
                    !.weather_data = wd, !.st = st,
                    !.proposed = check_cooling_mode_conditions(config, wd, st)]
    /\ UNCHANGED <<app_state, temperature_readings, notifications, clock, config, inv, runs, hist>>

CallHeating ==
    /\ call.fn = "none"
    /\ \E wd \in GridSnapshots, st \in GridStates :
         call' = [NoCall EXCEPT
                    !.fn = "check_heating_mode_conditions",
                    !.weather_data = wd, !.st = st,
                    !.proposed = check_heating_mode_conditions(config, wd, st)]
    /\ UNCHANGED <<app_state, temperature_readings, notifications, clock, config, inv, runs, hist>>

CallQuiet ==
    /\ call.fn = "none"
    /\ \E t \in GridInstants :
         call' = [NoCall EXCEPT
                    !.fn = "is_quiet_hours", !.now = t,
                    !.answer = is_quiet_hours(config, t)]
    /\ UNCHANGED <<app_state, temperature_readings, notifications, clock, config, inv, runs, hist>>

(* Instants around the end of the 30 minute window that opens at noon *)
WindowInstants ==
    {hms(12, 0, 1), hms(12, 29, 59), hms(12, 30, 0), hms(12, 30, 1)}

(* check_and_notify applied to a store holding the row of st, at instants
   around the end of the duplicate window, the send succeeding. *)
CallCheckAndNotify ==
    /\ call.fn = "none"
    /\ \E wd \in GridSnapshots, st \in GridStates, t \in WindowInstants :
         LET db == [app_state |-> RowOf(st),
                    temperature_readings |-> EmptyReadings,
                    notifications |-> EmptyNotifications]
             r == check_and_notify(db, config, [ok |-> TRUE, data |-> wd], "200", t, t)
         IN  call' = [NoCall EXCEPT
                        !.fn = "check_and_notify",
                        !.weather_data = wd, !.st = st, !.now = t,
                        !.proposed = r.notification_type,
                        !.answer = r.success, !.sent = r.sent,
                        !.changed = (r.app_state # db.app_state),
                        !.recorded = r.notifications.count,
                        !.readings = r.temperature_readings.count,
                        !.msg = r.notifications.last.message]
    /\ UNCHANGED <<app_state, temperature_readings, notifications, clock, config, inv, runs, hist>>

(* Instants for the gate: in the night, at the end of quiet hours, and
   around the end of the window that opens at noon. *)
GateInstants ==
    WindowInstants \cup {hms(6, 59, 59), hms(7, 0, 0), hms(7, 0, 1), hms(12, 0, 0),
                         hms(18, 0, 0), hms(22, 30, 0), hms(23, 0, 0)}

CallShouldSend ==
    /\ call.fn = "none"
    /\ \E nt \in NotificationTypes, st \in GridStates, t \in GateInstants :
         call' = [NoCall EXCEPT
                    !.fn = "should_send_notification",
                    !.proposed = nt, !.st = st, !.now = t,
                    !.answer = should_send_notification(config, nt, st, t)]
    /\ UNCHANGED <<app_state, temperature_readings, notifications, clock, config, inv, runs, hist>>

(* The rows get_app_state and update_app_state meet: none, or one of GridStates *)
GridRows == {NoRow} \cup {RowOf(st) : st \in GridStates}

CallGetAppState ==
    /\ call.fn = "none"
    /\ \E row \in GridRows, default_mode \in Modes :
         call' = [NoCall EXCEPT
                    !.fn = "get_app_state",
                    !.row = row, !.args = <<default_mode>>,
                    !.st = get_app_state(row, default_mode)]
    /\ UNCHANGED <<app_state, temperature_readings, notifications, clock, config, inv, runs, hist>>

(* update_app_state with each of its three arguments given or left at None *)
CallUpdateAppState ==
    /\ call.fn = "none"
    /\ \E row \in GridRows, window_state \in WindowStates \cup {None},
          mode \in Modes \cup {None},
          last_notification_type \in NotificationTypes \cup {None},
          t \in {hms(12, 0, 1), hms(13, 0, 0)} :
         call' = [NoCall EXCEPT
                    !.fn = "update_app_state",
                    !.row = row, !.now = t,
                    !.args = <<window_state, mode, last_notification_type>>,
                    !.out = update_app_state(row, window_state, mode,
                                             last_notification_type, t)]
    /\ UNCHANGED <<app_state, temperature_readings, notifications, clock, config, inv, runs, hist>>

(* 'reset' of the admin utility on the row of st, then check_and_notify on
   the store it leaves, at the same instant, the send succeeding.  call.st
   is the state before the reset. *)
CallResetThenCheck ==
    /\ call.fn = "none"
    /\ \E wd \in GridSnapshots, st \in GridStates, t \in WindowInstants :
         LET db == [app_state |-> admin_main(RowOf(st), <<"reset">>, t).app_state,
                    temperature_readings |-> EmptyReadings,
                    notifications |-> EmptyNotifications]
             r == check_and_notify(db, config, [ok |-> TRUE, data |-> wd], "200", t, t)
         IN  call' = [NoCall EXCEPT
                        !.fn = "reset_then_check",
                        !.weather_data = wd, !.st = st, !.now = t,
                        !.proposed = r.notification_type,
                        !.answer = r.success, !.sent = r.sent,
                        !.row = db.app_state, !.out = r.app_state,
                        !.recorded = r.notifications.count]
    /\ UNCHANGED <<app_state, temperature_readings, notifications, clock, config, inv, runs, hist>>

CallMessage ==
    /\ call.fn = "none"
    /\ \E nt \in NotificationTypes, wd \in GridSnapshots, mode \in Modes :
         call' = [NoCall EXCEPT
                    !.fn = "create_notification_message",
                    !.proposed = nt, !.weather_data = wd, !.args = <<mode>>,
                    !.msg = create_notification_message(nt, wd, mode)]
    /\ UNCHANGED <<app_state, temperature_readings, notifications, clock, config, inv, runs, hist>>

CallFetch ==
    /\ call.fn = "none"
    /\ \E zip_code \in {"", "10001"}, geo \in HttpOutcomes, api \in HttpOutcomes, data \in Snapshots :
         LET r == fetch_weather_data(zip_code, geo, api, data)
         IN  call' = [NoCall EXCEPT
                        !.fn = "fetch_weather_data",
                        !.args = <<zip_code, geo, api, data>>,
                        !.answer = r.ok, !.weather_data = r.data,
                        !.raised = r.raised]
    /\ UNCHANGED <<app_state, temperature_readings, notifications, clock, config, inv, runs, hist>>

CallSend ==
    /\ call.fn = "none"
    /\ \E token \in {"", "test_token"}, chat_id \in {"", "test_chat_id"}, net \in NetOutcomes, wd \in Snapshots :
         LET message == create_notification_message("close_windows", wd, "cooling")
         IN  call' = [NoCall EXCEPT
                        !.fn = "send_message",
                        !.args = <<token, chat_id, net>>, !.msg = message,
                        !.answer = send_message(message, token, chat_id, net),
                        !.requests = send_message_requests(message, token, chat_id, net)]
    /\ UNCHANGED <<app_state, temperature_readings, notifications, clock, config, inv, runs, hist>>

(* check_and_notify at half past noon with the token, the chat id or both
   missing from the configuration, on a network that would answer 200 *)
CallCheckNoCredentials ==
    /\ call.fn = "none"
    /\ \E wd \in GridSnapshots, st \in GridStates, token \in {"", "test_token"}, chat_id \in {"", "test_chat_id"} :
         /\ token = "" \/ chat_id = ""
         /\ LET cfg == [config EXCEPT !.telegram_token = token,
                                      !.telegram_chat_id = chat_id]
                db == [app_state |-> RowOf(st),
                       temperature_readings |-> EmptyReadings,
                       notifications |-> EmptyNotifications]
                t == hms(12, 30, 0)
                r == check_and_notify(db, cfg, [ok |-> TRUE, data |-> wd], "200", t, t)
            IN  call' = [NoCall EXCEPT
                           !.fn = "check_no_credentials",
                           !.args = <<token, chat_id, "200">>,
                           !.weather_data = wd, !.st = st, !.now = t,
                           !.proposed = r.notification_type,
                           !.answer = r.success, !.sent = r.sent,
                           !.changed = (r.app_state # db.app_state),
                           !.recorded = r.notifications.count,
                           !.notification = r.notifications.last,
                           !.requests =
                               IF r.sent
                               THEN send_message_requests(r.message, token, chat_id, "200")
                               ELSE <<>>]
    /\ UNCHANGED <<app_state, temperature_readings, notifications, clock, config, inv, runs, hist>>

NextPure ==
    \/ CallCooling \/ CallHeating \/ CallQuiet \/ CallCheckAndNotify
    \/ CallShouldSend \/ CallGetAppState \/ CallUpdateAppState
    \/ CallResetThenCheck \/ CallMessage
    \/ CallFetch \/ CallSend \/ CallCheckNoCredentials

SpecPure == InitPure /\ [][NextPure]_vars

(* The store test_get_app_state_default builds: the tables are there, the
   app_state row is not; and no database_schema.sql in the working
   directory, so that init_database raises the FileNotFoundError that
   __init__ swallows, and nothing inserts the row before the run. *)
InitNoRow ==
    /\ app_state = NoRow
    /\ temperature_readings = EmptyReadings
    /\ notifications = EmptyNotifications
    /\ clock = hms(7, 0, 0)
    /\ config = TestConfig
    /\ inv = Blank
    /\ call = NoCall
    /\ runs = NoRuns
    /\ hist = NoHist

SpecNoRow == InitNoRow /\ [][Next]_vars

(* Values of DEFAULT_MODE that are neither 'cooling' nor 'heating';
   _load_config_from_env takes the variable as it is. *)
OddModes == {"auto", "Cooling", ""}

(* The store without the app_state row, under a configuration whose
   default_mode is not a mode: get_app_state returns that default_mode. *)
InitOddMode ==
    /\ app_state = NoRow
    /\ temperature_readings = EmptyReadings
    /\ notifications = EmptyNotifications
    /\ clock = hms(7, 0, 0)
    /\ config \in {[TestConfig EXCEPT !.default_mode = m] : m \in OddModes}
    /\ inv = Blank
    /\ call = NoCall
    /\ runs = NoRuns
    /\ hist = NoHist

SpecOddMode == InitOddMode /\ [][Next]_vars

---------------------------------------------------------------------------
(* The engine on a store whose operations may raise *)

(* How many times a call occurs in a trace of calls, and the place of its
   first occurrence (0 when it does not occur) *)
Count(calls, name) == Cardinality({i \in DOMAIN calls : calls[i] = name})

First(calls, name) ==
    IF Count(calls, name) = 0 THEN 0
    ELSE CHOOSE i \in DOMAIN calls :
            /\ calls[i] = name
            /\ \A j \in DOMAIN calls : calls[j] = name => i <= j

(* The operations of DatabaseAdapter that check_and_notify calls, and the
   choice of the one that raises sqlite3.Error when it is called (None:
   none does).  An operation that raises leaves the store as it found it:
   its connection is a context manager that rolls back. *)
StoreOps ==
    {"record_temperature", "get_app_state", "record_notification", "update_app_state"}

Faults == StoreOps \cup {None}

(* check_and_notify when the store operation fault raises: there is no
   try in check_and_notify, in process_notification or in DatabaseAdapter,
   so the run goes as far as the call that raises and no further. *)
check_and_notify_raising(db, cfg, fetched, net, now, commit_time, fault) ==
    LET r == check_and_notify(db, cfg, fetched, net, now, commit_time)
        hit == fault # None /\ Count(r.calls, fault) > 0
        calls == IF hit THEN SubSeq(r.calls, 1, First(r.calls, fault))
                 ELSE r.calls
        done(name) == Count(calls, name) > 0 /\ ~(hit /\ name = fault)
        sent == Count(calls, "send_message") > 0
    IN  [app_state |-> IF done("update_app_state")
                       THEN r.app_state ELSE db.app_state,
         temperature_readings |-> IF done("record_temperature")
                                  THEN r.temperature_readings
                                  ELSE db.temperature_readings,
         notifications |-> IF done("record_notification")
                           THEN r.notifications ELSE db.notifications,
         notification_type |-> IF done("get_app_state")
                               THEN r.notification_type ELSE None,
         sent |-> sent,
         success |-> sent /\ r.success,
         calls |-> calls,
         raised |-> hit]

(* main that logs the exception and returns *)
main_swallows(db, cfg, fetched, net, now, commit_time, fault) ==
    LET r == check_and_notify_raising(db, cfg, fetched, net, now, commit_time, fault)
    IN  [run |-> r, logged |-> IF r.raised THEN 1 ELSE 0, raised |-> FALSE]

(* main of temp_checker.py: logged counts the calls of logger.error in its
   except clause, raised says that the exception leaves main. *)
main(db, cfg, fetched, net, now, commit_time, fault) ==
    LET r == check_and_notify_raising(db, cfg, fetched, net, now, commit_time, fault)
    IN  [run |-> r, logged |-> IF r.raised THEN 1 ELSE 0, raised |-> r.raised]

InitFaults ==
    /\ app_state \in {RowOf(st) : st \in GridStates}
    /\ temperature_readings = EmptyReadings
    /\ notifications = EmptyNotifications
    /\ clock = hms(12, 0, 1)
    /\ config = TestConfig
    /\ inv = Blank
    /\ call = NoCall
    /\ runs = NoRuns
    /\ hist = NoHist

(* One run of temp_checker.py, started at t, on a store that may raise *)
RunMain ==
    /\ temperature_readings.count < MaxReadings
    /\ \E t \in {clock, hms(12, 30, 0)}, fetched \in WeatherOutcomes, net \in {"200", "500"}, fault \in Faults :
         \E m \in {main([app_state |-> app_state,
                          temperature_readings |-> temperature_readings,
                          notifications |-> notifications],
                         config, fetched, net, t, t, fault)} :
             /\ app_state' = m.run.app_state
             /\ temperature_readings' = m.run.temperature_readings
             /\ notifications' = m.run.notifications
             /\ clock' = t
             /\ inv' = [Blank EXCEPT
                          !.op = "check", !.now = t,
                          !.fetched_ok = fetched.ok,
                          !.weather_data = fetched.data,
                          !.calls = m.run.calls,
                          !.notification_type = m.run.notification_type,
                          !.sent = m.run.sent, !.success = m.run.success,
                          !.fault = fault, !.raised = m.raised,
                          !.logged = m.logged]
    /\ UNCHANGED <<config, call, runs, hist>>

SpecFaults == InitFaults /\ [][RunMain]_vars

---------------------------------------------------------------------------
(* Runs that overlap.  Each method of DatabaseAdapter opens its own
   connection and commits on its own, so a run of temp_checker.py is three
   steps on the store: it inserts the reading and reads the state row, it
   sends and inserts the notification, it updates the state row.  Another
   run, or the admin utility, may act between them.  All of it happens at
   one instant of the clock. *)

OverlapSnapshots == {WeatherData(78, 85, 65), WeatherData(50, 60, 40)}

(* check_and_notify up to the decision to send *)
Load(p) ==
    /\ runs[p].pc = "idle"
    /\ \E fetched \in {[ok |-> TRUE, data |-> w] : w \in OverlapSnapshots}
                      \cup {[ok |-> FALSE, data |-> NoWeatherData]} :
         IF ~fetched.ok
         THEN /\ runs' = [runs EXCEPT ![p] = [NoRun EXCEPT !.pc = "done"]]
              /\ UNCHANGED temperature_readings
         ELSE LET weather_data == fetched.data
                  st == get_app_state(app_state, config.default_mode)
                  notification_type ==
                      IF st.mode = "cooling"
                      THEN check_cooling_mode_conditions(config, weather_data, st)
                      ELSE IF st.mode = "heating"
                           THEN check_heating_mode_conditions(config, weather_data, st)
                           ELSE None
                  go == /\ notification_type # None
                        /\ should_send_notification(config, notification_type, st, clock)
              IN  /\ temperature_readings' =
                         record_temperature(temperature_readings, weather_data,
                                            config.zip_code)
                  /\ runs' = [runs EXCEPT ![p] =
                         IF go
                         THEN [NoRun EXCEPT !.pc = "send", !.st = st,
                                            !.weather_data = weather_data,
                                            !.notification_type = notification_type]
                         ELSE [NoRun EXCEPT !.pc = "done"]]
    /\ UNCHANGED <<app_state, notifications, clock, config, inv, call, hist>>

(* process_notification up to record_notification *)
Send(p) ==
    /\ runs[p].pc = "send"
    /\ \E net \in NetOutcomes :
         LET r == runs[p]
             message == create_notification_message(r.notification_type,
                                                    r.weather_data, r.st.mode)
             success == send_message(message, config.telegram_token,
                                     config.telegram_chat_id, net)
         IN  /\ notifications' =
                    record_notification(notifications, r.notification_type,
                        r.weather_data.current_temp, r.weather_data.daily_high,
                        r.weather_data.daily_low, message, success, None)
             /\ runs' = [runs EXCEPT ![p] =
                    IF success THEN [r EXCEPT !.pc = "commit"]
                    ELSE [NoRun EXCEPT !.pc = "done"]]
    /\ UNCHANGED <<app_state, temperature_readings, clock, config, inv, call, hist>>

(* the update_app_state at the end of process_notification *)
Commit(p) ==
    /\ runs[p].pc = "commit"
    /\ LET new_window_state ==
               IF runs[p].notification_type = "close_windows"
               THEN "closed" ELSE "open"
       IN  app_state' = update_app_state(app_state, new_window_state, None,
                                         runs[p].notification_type, clock)
    /\ runs' = [runs EXCEPT ![p] = [NoRun EXCEPT !.pc = "done"]]
    /\ UNCHANGED <<temperature_readings, notifications, clock, config, inv, call, hist>>

(* One run of set_window_state.py between the steps of the runs *)
AdminBetween ==
    /\ \E argv \in Argvs :
         LET r == admin_main(app_state, argv, clock)
             window == IF r.app_state.window_state # app_state.window_state
                       THEN r.app_state.window_state ELSE None
             mode == IF r.app_state.mode # app_state.mode
                     THEN r.app_state.mode ELSE None
         IN  /\ app_state' = r.app_state
             /\ runs' = [p \in Procs |->
                    IF runs[p].pc \in {"send", "commit"}
                    THEN [runs[p] EXCEPT
                            !.admin_window = IF window # None THEN window ELSE @,
                            !.admin_mode = IF mode # None THEN mode ELSE @]
                    ELSE runs[p]]
    /\ UNCHANGED <<temperature_readings, notifications, clock, config, inv, call, hist>>

InitOverlap ==
    /\ app_state \in {RowOf(st) : st \in GridStates}
    /\ temperature_readings = EmptyReadings
    /\ notifications = EmptyNotifications
    /\ clock = hms(12, 0, 1)
    /\ config = TestConfig
    /\ inv = Blank
    /\ call = NoCall
    /\ runs = NoRuns
    /\ hist = NoHist

NextOverlap ==
    \/ \E p \in Procs : Load(p) \/ Send(p) \/ Commit(p)
    \/ AdminBetween

SpecOverlap == InitOverlap /\ [][NextOverlap]_vars

(* The admin utility on its own: every command line, well formed or not,
   on a store with or without the state row and with or without history. *)
MalformedArgvs == {<<>>, <<"bogus">>, <<"mode">>, <<"mode", "auto">>}

AdminArgvs == Argvs \cup {<<"status">>} \cup MalformedArgvs

OneReading ==
    record_temperature(EmptyReadings, WeatherData(78, 85, 65), TestConfig.zip_code)

OneNotification ==
    record_notification(EmptyNotifications, "close_windows", 78, 85, 65,
        create_notification_message("close_windows", WeatherData(78, 85, 65), "cooling"),
        TRUE, None)

InitAdmin ==
    /\ app_state \in GridRows
    /\ temperature_readings \in {EmptyReadings, OneReading}
    /\ notifications \in {EmptyNotifications, OneNotification}
    /\ clock = hms(12, 0, 0)
    /\ config = TestConfig
    /\ inv = Blank
    /\ call = NoCall
    /\ runs = NoRuns
    /\ hist = NoHist

(* One run of set_window_state.py with any command line, started at t *)
AdminAny ==
    /\ \E t \in StartTimes, argv \in AdminArgvs :
         LET r == admin_main(app_state, argv, t)
         IN  /\ app_state' = r.app_state
             /\ clock' = t
             /\ inv' = [Blank EXCEPT
                          !.op = "admin", !.now = t, !.argv = argv,
                          !.exit_code = r.exit_code, !.output = r.output]
    /\ UNCHANGED <<temperature_readings, notifications, config, call, runs, hist>>

SpecAdmin == InitAdmin /\ [][AdminAny]_vars

---------------------------------------------------------------------------
(* Sequences of runs: temp_checker.py invoked again and again by the
   scheduler, one run after the other, hist recording what the runs did. *)

(* No run starts once MaxRuns runs were made *)
MaxRuns == 3

(* One run of temp_checker.py started at an instant of instants, the
   weather source answering with one of outcomes *)
Invoke(outcomes, instants) ==
    /\ hist.invocations < MaxRuns
    /\ \E t \in {i \in instants \cup {clock} : i >= clock}, fetched \in outcomes, net \in NetOutcomes, d \in SendDurations :
         \E r \in {check_and_notify([app_state |-> app_state,
                                      temperature_readings |-> temperature_readings,
                                      notifications |-> notifications],
                                     config, fetched, net, t, t + d)} :
             /\ app_state' = r.app_state
             /\ temperature_readings' = r.temperature_readings
             /\ notifications' = r.notifications
             /\ clock' = IF r.sent THEN t + d ELSE t
             /\ inv' = [Blank EXCEPT
                          !.op = "check", !.now = t,
                          !.fetched_ok = fetched.ok,
                          !.weather_data = fetched.data,
                          !.calls = r.calls,
                          !.notification_type = r.notification_type,
                          !.gate_asked = r.gate_asked, !.gate = r.gate,
                          !.sent = r.sent, !.success = r.success]
             /\ hist' = [sends |-> IF r.success
                                   THEN Append(hist.sends,
                                               [type |-> r.notification_type, time |-> t])
                                   ELSE hist.sends,
                         flips |-> IF r.app_state.window_state # app_state.window_state
                                   THEN hist.flips + 1 ELSE hist.flips,
                         observed |-> IF fetched.ok
                                      THEN hist.observed \cup {fetched.data}
                                      ELSE hist.observed,
                         invocations |-> hist.invocations + 1]
    /\ UNCHANGED <<config, call, runs>>

(* Snapshots at and between the thresholds of both modes, with a forecast
   high on either side of both forecast thresholds *)
SteadySnapshots ==
    {WeatherData(c, h, 50) : c \in {55, 60, 65, 76, 77, 78}, h \in {65, 85}}

(* The state row before the first run: either position, either mode, no
   notification yet. *)
InitSteady ==
    /\ app_state \in {Row(w, m, None, NoTime, NoTime) : w \in WindowStates, m \in Modes}
    /\ temperature_readings = EmptyReadings
    /\ notifications = EmptyNotifications
    /\ clock = hms(7, 0, 0)
    /\ config = TestConfig
    /\ inv = Blank
    /\ call = NoCall
    /\ runs = NoRuns
    /\ hist = NoHist

(* A run whose snapshot, when the weather source answers, is the one every
   run before it observed *)
InvokeSteady ==
    /\ Invoke({[ok |-> TRUE, data |-> w] : w \in SteadySnapshots}
                  \cup {[ok |-> FALSE, data |-> NoWeatherData]}, Instants)
    /\ Cardinality(hist'.observed) <= 1

SpecSteady == InitSteady /\ [][InvokeSteady]_vars

(* Instants ten minutes apart, from noon to the end of the 30 minute window
   that opens at noon *)
HistoryInstants ==
    {hms(12, 0, 0), hms(12, 10, 0), hms(12, 20, 0), hms(12, 30, 0)}

(* Command lines of the admin utility that set window_state or mode *)
OverrideArgvs == Argvs \ {<<"reset">>}

InitHistory ==
    /\ app_state = SchemaRow
    /\ temperature_readings = EmptyReadings
    /\ notifications = EmptyNotifications
    /\ clock = hms(12, 0, 0)
    /\ config = TestConfig
    /\ inv = Blank
    /\ call = NoCall
    /\ runs = NoRuns
    /\ hist = NoHist

(* A run on whatever the weather source answers *)
InvokeAny == Invoke(WeatherOutcomes, HistoryInstants)

(* One run of set_window_state.py with open, closed or mode, between two
   runs of the engine *)
Override ==
    /\ hist.invocations < MaxRuns
    /\ \E argv \in OverrideArgvs :
         LET r == admin_main(app_state, argv, clock)
         IN  /\ app_state' = r.app_state
             /\ inv' = [Blank EXCEPT
                          !.op = "admin", !.now = clock, !.argv = argv,
                          !.exit_code = r.exit_code, !.output = r.output]
    /\ UNCHANGED <<temperature_readings, notifications, clock, config, call, runs, hist>>

NextHistory == InvokeAny \/ Override

SpecHistory == InitHistory /\ [][NextHistory]_vars

(* Runs of the engine alone, from the state row the schema inserts or the
   same row in heating mode *)
InitEngine ==
    /\ app_state \in {Row("closed", m, None, NoTime, NoTime) : m \in Modes}
    /\ temperature_readings = EmptyReadings
    /\ notifications = EmptyNotifications
    /\ clock = hms(12, 0, 0)
    /\ config = TestConfig
    /\ inv = Blank
    /\ call = NoCall
    /\ runs = NoRuns
    /\ hist = NoHist

(* A run at one of the instants of HistoryInstants or at 23:00, in the
   quiet hours *)
InvokeEngine == Invoke(WeatherOutcomes, HistoryInstants \cup {hms(23, 0, 0)})

SpecEngine == InitEngine /\ [][InvokeEngine]_vars

---------------------------------------------------------------------------
(* One run of temp_checker.py, statement by statement: main,
   check_and_notify and process_notification.  pc names the call the run
   makes next.  An exception of a store operation meets no try before
   main's, which logs and raises it again: the run has ended. *)

TheRun == 1

Raise(p, op) ==
    [runs EXCEPT ![p].pc = "ended", ![p].ended = "raised",
                 ![p].steps = Append(@, op)]

Goto(p, op, next) ==
    [runs EXCEPT ![p].pc = next, ![p].steps = Append(@, op)]

(* main: checker = TemperatureChecker(); checker.check_and_notify() *)
StartRun(p) ==
    /\ runs[p].pc = "idle"
    /\ \E fault \in Faults :
         runs' = [runs EXCEPT ![p].pc = "fetch_weather_data", ![p].fault = fault]
    /\ UNCHANGED <<app_state, temperature_readings, notifications, clock, config, inv, call, hist>>

(* weather_data = self.weather.fetch_weather_data(...); if not
   weather_data: log and return *)
FetchStep(p) ==
    /\ runs[p].pc = "fetch_weather_data"
    /\ \E geo \in HttpOutcomes, api \in HttpOutcomes, data \in Snapshots :
         LET w == fetch_weather_data(config.zip_code, geo, api, data)
         IN  runs' = IF w.raised THEN Raise(p, "fetch_weather_data")
                     ELSE IF ~w.ok
                     THEN [runs EXCEPT ![p].pc = "ended", ![p].ended = "aborted",
                                       ![p].steps = Append(@, "fetch_weather_data")]
                     ELSE [Goto(p, "fetch_weather_data", "record_temperature")
                              EXCEPT ![p].weather_data = w.data]
    /\ UNCHANGED <<app_state, temperature_readings, notifications, clock, config, inv, call, hist>>

(* self.database.record_temperature(weather_data, self.config.zip_code) *)
RecordTemperatureStep(p) ==
    /\ runs[p].pc = "record_temperature"
    /\ IF runs[p].fault = "record_temperature"
       THEN /\ runs' = Raise(p, "record_temperature")
            /\ UNCHANGED temperature_readings
       ELSE /\ temperature_readings' =
                   record_temperature(temperature_readings, runs[p].weather_data,
                                      config.zip_code)
            /\ runs' = Goto(p, "record_temperature", "get_app_state")
    /\ UNCHANGED <<app_state, notifications, clock, config, inv, call, hist>>

(* app_state = self.database.get_app_state(self.config.default_mode) *)
GetAppStateStep(p) ==
    /\ runs[p].pc = "get_app_state"
    /\ runs' = IF runs[p].fault = "get_app_state"
               THEN Raise(p, "get_app_state")
               ELSE [Goto(p, "get_app_state", "rules")
                        EXCEPT ![p].st = get_app_state(app_state, config.default_mode)]
    /\ UNCHANGED <<app_state, temperature_readings, notifications, clock, config, inv, call, hist>>

(* notification_type = None; if mode == 'cooling': ...; elif mode ==
   'heating': ... *)
RulesStep(p) ==
    /\ runs[p].pc = "rules"
    /\ LET st == runs[p].st
           notification_type ==
               IF st.mode = "cooling"
               THEN check_cooling_mode_conditions(config, runs[p].weather_data, st)
               ELSE IF st.mode = "heating"
                    THEN check_heating_mode_conditions(config, runs[p].weather_data, st)
                    ELSE None
       IN  runs' = [Goto(p, "rules", IF notification_type # None
                                     THEN "should_send_notification"
                                     ELSE "terminate")
                       EXCEPT ![p].notification_type = notification_type]
    /\ UNCHANGED <<app_state, temperature_readings, notifications, clock, config, inv, call, hist>>

(* if notification_type and self.should_send_notification(...) *)
GateStep(p) ==
    /\ runs[p].pc = "should_send_notification"
    /\ runs' = Goto(p, "should_send_notification",
                    IF should_send_notification(config, runs[p].notification_type,
                                                runs[p].st, clock)
                    THEN "send_message" ELSE "terminate")
    /\ UNCHANGED <<app_state, temperature_readings, notifications, clock, config, inv, call, hist>>

(* process_notification: message = create_notification_message(...);
   success = self.telegram.send_message(message) *)
SendStep(p) ==
    /\ runs[p].pc = "send_message"
    /\ \E net \in NetOutcomes :
         LET message == create_notification_message(runs[p].notification_type,
                            runs[p].weather_data, runs[p].st.mode)
         IN  runs' = [Goto(p, "send_message", "record_notification")
                         EXCEPT ![p].message = message,
                                ![p].success =
                                    send_message(message, config.telegram_token,
                                                 config.telegram_chat_id, net)]
    /\ UNCHANGED <<app_state, temperature_readings, notifications, clock, config, inv, call, hist>>

(* self.database.record_notification(...); if success: ... else: log *)
RecordNotificationStep(p) ==
    /\ runs[p].pc = "record_notification"
    /\ IF runs[p].fault = "record_notification"
       THEN /\ runs' = Raise(p, "record_notification")
            /\ UNCHANGED notifications
       ELSE /\ notifications' =
                   record_notification(notifications, runs[p].notification_type,
                       runs[p].weather_data.current_temp,
                       runs[p].weather_data.daily_high,
                       runs[p].weather_data.daily_low,
                       runs[p].message, runs[p].success, None)
            /\ runs' = Goto(p, "record_notification",
                            IF runs[p].success THEN "update_app_state"
                            ELSE "terminate")
    /\ UNCHANGED <<app_state, temperature_readings, clock, config, inv, call, hist>>

(* self.database.update_app_state(window_state=new_window_state,
   last_notification_type=notification_type) *)
UpdateAppStateStep(p) ==
    /\ runs[p].pc = "update_app_state"
    /\ IF runs[p].fault = "update_app_state"
       THEN /\ runs' = Raise(p, "update_app_state")
            /\ UNCHANGED app_state
       ELSE /\ app_state' =
                   update_app_state(app_state,
                       IF runs[p].notification_type = "close_windows"
                       THEN "closed" ELSE "open",
                       None, runs[p].notification_type, clock)
            /\ runs' = Goto(p, "update_app_state", "terminate")
    /\ UNCHANGED <<temperature_readings, notifications, clock, config, inv, call, hist>>

(* check_and_notify returns, main returns, the process exits *)
TerminateStep(p) ==
    /\ runs[p].pc = "terminate"
    /\ runs' = [runs EXCEPT ![p].pc = "ended", ![p].ended = "completed",
                            ![p].steps = Append(@, "terminate")]
    /\ UNCHANGED <<app_state, temperature_readings, notifications, clock, config, inv, call, hist>>

InitSteps ==
    /\ app_state \in {RowOf(st) : st \in GridStates}
    /\ temperature_readings = EmptyReadings
    /\ notifications = EmptyNotifications
    /\ clock \in {hms(12, 0, 1), hms(23, 0, 0)}
    /\ config = TestConfig
    /\ inv = Blank
    /\ call = NoCall
    /\ runs = NoRuns
    /\ hist = NoHist

NextSteps ==
    \/ StartRun(TheRun)
    \/ FetchStep(TheRun)
    \/ RecordTemperatureStep(TheRun)
    \/ GetAppStateStep(TheRun)
    \/ RulesStep(TheRun)
    \/ GateStep(TheRun)
    \/ SendStep(TheRun)
    \/ RecordNotificationStep(TheRun)
    \/ UpdateAppStateStep(TheRun)
    \/ TerminateStep(TheRun)

(* The process is single-threaded and nothing in it waits without bound
   (requests timeout=10, SQLite calls return or raise): a run that can make
   its next call makes it. *)
SpecSteps == InitSteps /\ [][NextSteps]_vars /\ WF_vars(NextSteps)

---------------------------------------------------------------------------
(* Properties of one invocation, under Spec *)

(* The window position a notification type commands *)
Implied(notification_type) ==
    IF notification_type = "close_windows" THEN "closed" ELSE "open"

(* The reading record_temperature inserts for a snapshot *)
ReadingOf(c, h, l) ==
    [current_temp |-> c, daily_high_forecast |-> h, daily_low_forecast |-> l,
     zip_code |-> config.zip_code]

(* Quiet hours as section 4.2 words them: start and end are times of day,
   the window wraps midnight when start > end, both ends are quiet. *)
QuietStart == (config.quiet_start_hour * 60 + config.quiet_start_minute) * 60
QuietEnd == (config.quiet_end_hour * 60 + config.quiet_end_minute) * 60

QuietAt(t) ==
    LET tod == t % SecondsPerDay
    IN  \/ QuietStart > QuietEnd /\ (tod >= QuietStart \/ tod <= QuietEnd)
        \/ QuietStart <= QuietEnd /\ QuietStart <= tod /\ tod <= QuietEnd

(* C1: when send_message reports failure inside process_notification,
   window_state, last_notification_type and last_notification_time of the
   stored row are what they were before the invocation, and exactly one
   notification row, with sent_successfully false, is appended. *)
C1_FailureIsolation ==
    [][(inv'.op = "check" /\ inv'.sent /\ ~inv'.success) =>
          /\ app_state'.window_state = app_state.window_state
          /\ app_state'.last_notification_type = app_state.last_notification_type
          /\ app_state'.last_notification_time = app_state.last_notification_time
          /\ notifications'.count = notifications.count + 1
          /\ notifications'.last.sent_successfully = FALSE
          /\ notifications'.last.notification_type = inv'.notification_type]_vars

C1_Witness ==
    /\ inv.op = "check" /\ inv.sent /\ ~inv.success
    /\ notifications.count = 1
    /\ ~notifications.last.sent_successfully
    /\ app_state.window_state = "open"

(* C2: when a rule proposes a type, the gate passes and the send succeeds,
   the invocation leaves window_state = closed for close_windows and open
   for open_windows, and last_notification_type = the type sent; the row
   {open, cooling} with snapshot {78, 85, 65} outside quiet hours ends
   {closed, close_windows}. *)
C2_CommitOnSuccess ==
    [][(inv'.op = "check" /\ inv'.notification_type # None /\ inv'.gate
          /\ inv'.success) =>
          /\ inv'.notification_type = "close_windows"
                => app_state'.window_state = "closed"
          /\ inv'.notification_type = "open_windows"
                => app_state'.window_state = "open"
          /\ app_state'.last_notification_type = inv'.notification_type
          /\ (/\ app_state.window_state = "open"
              /\ app_state.mode = "cooling"
              /\ temperature_readings'.last = ReadingOf(78, 85, 65))
                => /\ app_state'.window_state = "closed"
                   /\ app_state'.last_notification_type = "close_windows"]_vars

C2_Witness ==
    /\ inv.op = "check" /\ inv.success /\ ~QuietAt(inv.now)
    /\ inv.notification_type = "close_windows"
    /\ temperature_readings.last = ReadingOf(78, 85, 65)
    /\ app_state.mode = "cooling"
    /\ app_state.window_state = "closed"
    /\ app_state.last_notification_type = "close_windows"

(* C3: across an invocation of check_and_notify window_state changes only
   if a send succeeded in that invocation: not on a failed send, a
   suppressed proposal, no proposal, or a failed weather fetch. *)
C3_WindowFlipsOnlyOnSuccess ==
    [][inv'.op = "check" =>
          /\ app_state'.window_state # app_state.window_state => inv'.success
          /\ (inv'.sent /\ ~inv'.success)
                => app_state'.window_state = app_state.window_state
          /\ (inv'.gate_asked /\ ~inv'.gate)
                => app_state'.window_state = app_state.window_state
          /\ (inv'.fetched_ok /\ inv'.notification_type = None)
                => app_state'.window_state = app_state.window_state
          /\ ~inv'.fetched_ok
                => app_state'.window_state = app_state.window_state]_vars

C3_Witness ==
    /\ inv.op = "check" /\ inv.gate_asked /\ ~inv.gate
    /\ inv.notification_type = "close_windows"
    /\ app_state.window_state = "open"
    /\ notifications.count = 1 /\ notifications.last.sent_successfully

(* C4: check_and_notify never alters mode, whatever its outcome; mode
   changes only in a run of the admin utility's mode command. *)
C4_EngineKeepsMode ==
    [][/\ inv'.op = "check" => app_state'.mode = app_state.mode
       /\ app_state'.mode # app_state.mode
             => inv'.op = "admin" /\ inv'.argv[1] = "mode"]_vars

C4_Witness ==
    /\ inv.op = "check" /\ inv.success
    /\ app_state.mode = "heating"
    /\ inv.notification_type = "open_windows"

(* C5: in every state reached from the schema's row by invocations and
   admin commands, last_notification_type and last_notification_time are
   both NULL or both set. *)
C5_TypeAndTimeTogether ==
    (app_state.last_notification_type = None)
        <=> (app_state.last_notification_time = NoTime)

C5_Witness ==
    /\ inv.op = "admin" /\ inv.argv = <<"reset">>
    /\ notifications.count > 0 /\ notifications.last.sent_successfully
    /\ app_state.last_notification_type = None
    /\ app_state.last_notification_time = NoTime

(* C10: in an invocation whose current time is within quiet hours nothing
   is sent, no notification row is appended and the app_state row is
   unchanged; the reading of a fetched snapshot is still recorded. *)
C10_QuietHoursSuppress ==
    [][(inv'.op = "check" /\ QuietAt(inv'.now)) =>
          /\ ~inv'.sent
          /\ notifications' = notifications
          /\ app_state' = app_state
          /\ inv'.fetched_ok
                => temperature_readings'.count = temperature_readings.count + 1]_vars

C10_Witness ==
    /\ inv.op = "check" /\ QuietAt(inv.now)
    /\ inv.notification_type = "close_windows"
    /\ inv.gate_asked /\ ~inv.gate
    /\ app_state.last_notification_type = None
    /\ temperature_readings.count = 1
    /\ notifications.count = 0

---------------------------------------------------------------------------
(* Properties of the functions, under SpecPure *)

(* C6: whatever the snapshot and the state, the cooling rules propose
   neither close_windows with the windows closed nor open_windows with them
   open, and no invocation sends a notification whose window position is
   the one the state already holds. *)
C6_NoProposalForCurrentPosition ==
    /\ call.fn = "check_cooling_mode_conditions" =>
          /\ ~(call.proposed = "close_windows" /\ call.st.window_state = "closed")
          /\ ~(call.proposed = "open_windows" /\ call.st.window_state = "open")
    /\ (call.fn = "check_and_notify" /\ call.sent) =>
          Implied(call.proposed) # call.st.window_state

C6_Witness ==
    /\ call.fn = "check_and_notify" /\ call.sent
    /\ call.st.mode = "cooling" /\ call.st.window_state = "open"
    /\ call.proposed = "close_windows"

(* C7: check_cooling_mode_conditions returns close_windows exactly when the
   windows are open, current_temp >= close_windows_temp and daily_high >
   forecast_high_threshold; open_windows exactly when they are closed and
   current_temp <= open_windows_temp; none otherwise.  current_temp =
   close_windows_temp closes, daily_high = forecast_high_threshold does
   not. *)
C7_CoolingTable ==
    call.fn = "check_cooling_mode_conditions" =>
        LET w == call.weather_data
            close == /\ call.st.window_state = "open"
                     /\ w.current_temp >= config.close_windows_temp
                     /\ w.daily_high > config.forecast_high_threshold
            open == /\ call.st.window_state = "closed"
                    /\ w.current_temp <= config.open_windows_temp
        IN  /\ call.proposed = "close_windows" <=> close
            /\ call.proposed = "open_windows" <=> open
            /\ call.proposed = None <=> ~close /\ ~open
            /\ (/\ call.st.window_state = "open"
                /\ w.current_temp = config.close_windows_temp
                /\ w.daily_high = config.forecast_high_threshold + 1)
                  => call.proposed = "close_windows"
            /\ w.daily_high = config.forecast_high_threshold
                  => call.proposed # "close_windows"

C7_Witness ==
    /\ call.fn = "check_cooling_mode_conditions"
    /\ config = TestConfig
    /\ call.st.window_state = "open"
    /\ call.weather_data.current_temp = 78
    /\ call.weather_data.daily_high = 81
    /\ call.proposed = "close_windows"

(* C8: check_heating_mode_conditions returns close_windows exactly when the
   windows are open and current_temp <= heating_close_temp; open_windows
   exactly when they are closed, current_temp >= heating_open_temp and
   daily_high < heating_forecast_low_threshold (strictly); none otherwise. *)
C8_HeatingTable ==
    call.fn = "check_heating_mode_conditions" =>
        LET w == call.weather_data
            close == /\ call.st.window_state = "open"
                     /\ w.current_temp <= config.heating_close_temp
            open == /\ call.st.window_state = "closed"
                    /\ w.current_temp >= config.heating_open_temp
                    /\ w.daily_high < config.heating_forecast_low_threshold
        IN  /\ call.proposed = "close_windows" <=> close
            /\ call.proposed = "open_windows" <=> open
            /\ call.proposed = None <=> ~close /\ ~open
            /\ w.daily_high = config.heating_forecast_low_threshold
                  => call.proposed # "open_windows"

C8_Witness ==
    /\ call.fn = "check_heating_mode_conditions"
    /\ config = TestConfig
    /\ call.st.window_state = "closed"
    /\ call.weather_data.current_temp = 65
    /\ call.weather_data.daily_high = 69
    /\ call.proposed = "open_windows"

(* C9: for every time of day and every configured (start, end),
   is_quiet_hours is true exactly when start > end and (now >= start or
   now <= end), or start <= end and start <= now <= end; for 22:30-07:00,
   23:00 and 07:00 are quiet, 07:01 and 22:29 are not. *)
C9_QuietPredicate ==
    call.fn = "is_quiet_hours" =>
        LET tod == call.now % SecondsPerDay
        IN  /\ call.answer <=> QuietAt(call.now)
            /\ config = TestConfig =>
                  /\ tod = 23 * 3600 => call.answer
                  /\ tod = 7 * 3600 => call.answer
                  /\ tod = 7 * 3600 + 60 => ~call.answer
                  /\ tod = 22 * 3600 + 29 * 60 => ~call.answer

C9_Witness ==
    /\ call.fn = "is_quiet_hours"
    /\ config = TestConfig
    /\ call.now = SecondsPerDay + 7 * 3600
    /\ call.answer

(* C11: outside quiet hours, an invocation that proposes the type of the
   last notification, a last notification time being recorded, sends
   nothing, inserts no notification row and leaves the stored state as it
   was when less than 30 minutes have passed since that time, and sends when
   30 minutes or more have passed (30 minutes and 1 second among them). *)
C11_DuplicateSuppression ==
    (/\ call.fn = "check_and_notify"
     /\ ~QuietAt(call.now)
     /\ call.proposed # None
     /\ call.proposed = call.st.last_notification_type
     /\ call.st.last_notification_time # NoTime) =>
        LET elapsed == call.now - call.st.last_notification_time
        IN  /\ elapsed < 30 * 60 =>
                 ~call.sent /\ call.recorded = 0 /\ ~call.changed
            /\ elapsed >= 30 * 60 => call.sent
            /\ call.now = hms(12, 30, 1) => call.sent

C11_Witness ==
    /\ call.fn = "check_and_notify"
    /\ ~QuietAt(call.now)
    /\ call.proposed = "close_windows"
    /\ call.st.last_notification_type = "close_windows"
    /\ call.now - call.st.last_notification_time = 30 * 60
    /\ call.sent

(* C12: outside quiet hours, should_send_notification answers true for a
   proposed type that is not the last notification type, and for any type
   when no last notification is recorded, however recent the last
   notification time. *)
C12_OtherTypeNotSuppressed ==
    (/\ call.fn = "should_send_notification"
     /\ ~QuietAt(call.now)
     /\ \/ call.proposed # call.st.last_notification_type
        \/ call.st.last_notification_type = None
        \/ call.st.last_notification_time = NoTime) =>
        call.answer

C12_Witness ==
    /\ call.fn = "should_send_notification"
    /\ ~QuietAt(call.now)
    /\ call.proposed = "open_windows"
    /\ call.st.last_notification_type = "close_windows"
    /\ call.now - call.st.last_notification_time = 1
    /\ call.answer

(* C13: when fetch_weather_data returns no weather data, the invocation
   inserts no temperature reading, neither reads nor writes the state row,
   calls send_message not at all, inserts no notification row, and
   returns: the fetch is the only call it makes. *)
C13_WeatherUnavailable ==
    [][(inv'.op = "check" /\ ~inv'.fetched_ok) =>
          /\ temperature_readings' = temperature_readings
          /\ app_state' = app_state
          /\ notifications' = notifications
          /\ inv'.calls = <<"fetch_weather_data">>
          /\ ~inv'.sent /\ ~inv'.gate_asked
          /\ inv'.notification_type = None]_vars

C13_Witness ==
    /\ inv.op = "check"
    /\ ~inv.fetched_ok
    /\ inv.calls = <<"fetch_weather_data">>
    /\ temperature_readings.count = 1
    /\ notifications.count = 1

(* C14: an invocation whose weather fetch succeeds inserts exactly one
   temperature reading, holding the three temperatures of the snapshot and
   the zip code, and does so before it reads the state row, whether a
   notification is proposed, gated or sent, or not. *)
C14_OneReadingPerFetch ==
    [][(inv'.op = "check" /\ inv'.fetched_ok) =>
          /\ temperature_readings'.count = temperature_readings.count + 1
          /\ temperature_readings'.last =
                 ReadingOf(inv'.weather_data.current_temp,
                           inv'.weather_data.daily_high,
                           inv'.weather_data.daily_low)
          /\ Count(inv'.calls, "record_temperature") = 1
          /\ Count(inv'.calls, "get_app_state") = 1
          /\ First(inv'.calls, "record_temperature")
                 < First(inv'.calls, "get_app_state")]_vars

C14_Witness ==
    /\ inv.op = "check"
    /\ inv.fetched_ok
    /\ inv.gate_asked /\ ~inv.gate
    /\ inv.weather_data = WeatherData(78, 85, 65)
    /\ temperature_readings.count = 2
    /\ temperature_readings.last = ReadingOf(78, 85, 65)

(* C15: when the rules of the mode propose no notification, the invocation
   calls send_message not at all, inserts no notification row and leaves
   the state row as it was, and still inserts the temperature reading; so
   it is with windows closed, mode heating and the snapshot 68, 80, 50. *)
C15_NoProposalNoEffect ==
    [][(inv'.op = "check" /\ inv'.fetched_ok) =>
          /\ inv'.notification_type = None =>
                /\ ~inv'.sent
                /\ Count(inv'.calls, "send_message") = 0
                /\ Count(inv'.calls, "update_app_state") = 0
                /\ notifications' = notifications
                /\ app_state' = app_state
                /\ temperature_readings'.count = temperature_readings.count + 1
                /\ temperature_readings'.last =
                       ReadingOf(inv'.weather_data.current_temp,
                                 inv'.weather_data.daily_high,
                                 inv'.weather_data.daily_low)
          /\ (/\ app_state.window_state = "closed"
              /\ app_state.mode = "heating"
              /\ inv'.weather_data = WeatherData(68, 80, 50)) =>
                inv'.notification_type = None]_vars

C15_Witness ==
    /\ inv.op = "check"
    /\ inv.fetched_ok
    /\ inv.notification_type = None
    /\ inv.weather_data = WeatherData(68, 80, 50)
    /\ app_state.window_state = "closed"
    /\ app_state.mode = "heating"
    /\ temperature_readings.last = ReadingOf(68, 80, 50)
    /\ notifications.count = 0

(* C16: an invocation calls send_message at most once: not a second time
   when the first call failed, and never for a second message. *)
C16_AtMostOneSend ==
    [][inv'.op = "check" =>
          /\ Count(inv'.calls, "send_message") <= 1
          /\ Count(inv'.calls, "send_message") = (IF inv'.sent THEN 1 ELSE 0)
          /\ notifications'.count <= notifications.count + 1]_vars

C16_Witness ==
    /\ inv.op = "check"
    /\ inv.sent /\ ~inv.success
    /\ Count(inv.calls, "send_message") = 1
    /\ notifications.last.sent_successfully = FALSE

(* C17: after an invocation whose send failed, the next invocation that
   fetches the same snapshot outside quiet hours finds the state row as the
   failed one found it, proposes the same notification type and calls
   send_message again; when that send succeeds, the window state and the
   notification type it stands for are committed. *)
C17_RetryByReinvocation ==
    [][(/\ inv.op = "check" /\ inv.sent /\ ~inv.success
        /\ inv'.op = "check" /\ inv'.fetched_ok
        /\ inv'.weather_data = inv.weather_data
        /\ ~QuietAt(inv'.now)) =>
          /\ inv'.after_failed
          /\ inv'.notification_type = inv.notification_type
          /\ inv'.sent
          /\ Count(inv'.calls, "send_message") = 1
          /\ inv'.success =>
                /\ app_state'.window_state = Implied(inv.notification_type)
                /\ app_state'.last_notification_type = inv.notification_type
          /\ ~inv'.success =>
                /\ app_state'.window_state = app_state.window_state
                /\ app_state'.last_notification_type
                       = app_state.last_notification_type]_vars

C17_Witness ==
    /\ inv.op = "check"
    /\ inv.after_failed
    /\ inv.sent /\ inv.success
    /\ notifications.count = 2
    /\ app_state.window_state = Implied(inv.notification_type)
    /\ app_state.last_notification_type = inv.notification_type

(* C18: get_app_state on a store without the state row returns window
   state closed, the default mode it was given, no last notification type
   and no last notification time; on a store with the row it returns the
   four fields of the row. *)
C18_GetAppState ==
    call.fn = "get_app_state" =>
        IF call.row.exists
        THEN /\ call.st.window_state = call.row.window_state
             /\ call.st.mode = call.row.mode
             /\ call.st.last_notification_type = call.row.last_notification_type
             /\ call.st.last_notification_time = call.row.last_notification_time
        ELSE call.st = AppState("closed", call.args[1], None, NoTime)

C18_Witness ==
    /\ call.fn = "get_app_state"
    /\ ~call.row.exists
    /\ call.args = <<"heating">>
    /\ call.st = AppState("closed", "heating", None, NoTime)

(* C19: after an invocation that loads the state from a store without the
   state row, the store holds the row, and when the send of that invocation
   succeeded the row holds the window state and the notification type the
   invocation committed. *)
C19_DefaultRowCreated ==
    [][(inv'.op = "check" /\ inv'.fetched_ok /\ ~app_state.exists) =>
          /\ app_state'.exists
          /\ inv'.success =>
                /\ app_state'.window_state = Implied(inv'.notification_type)
                /\ app_state'.last_notification_type
                       = inv'.notification_type]_vars

(* C20: update_app_state sets the fields it is given and leaves the others
   as they were: the window state alone keeps the mode, the mode alone
   keeps the window state, and neither touches the last notification type
   and time; and whichever fields it is given, it stamps updated_at. *)
C20_UpdateSetsOnlyProvided ==
    (/\ call.fn = "update_app_state"
     /\ call.row.exists
     /\ call.args # <<None, None, None>>) =>
        LET window_state == call.args[1]
            mode == call.args[2]
            last_notification_type == call.args[3]
        IN  /\ call.out.exists
            /\ call.out.window_state =
                   (IF window_state # None THEN window_state
                    ELSE call.row.window_state)
            /\ call.out.mode =
                   (IF mode # None THEN mode ELSE call.row.mode)
            /\ call.out.last_notification_type =
                   (IF last_notification_type # None
                    THEN last_notification_type
                    ELSE call.row.last_notification_type)
            /\ call.out.last_notification_time =
                   (IF last_notification_type # None THEN call.now
                    ELSE call.row.last_notification_time)
            /\ call.out.updated_at = call.now

C20_Witness ==
    /\ call.fn = "update_app_state"
    /\ call.args = <<"open", None, None>>
    /\ call.row.window_state = "closed"
    /\ call.row.mode = "heating"
    /\ call.row.last_notification_type = "close_windows"
    /\ call.out.window_state = "open"
    /\ call.out.mode = "heating"
    /\ call.out.last_notification_type = "close_windows"
    /\ call.out.last_notification_time = call.row.last_notification_time
    /\ call.out.updated_at = call.now
    /\ call.out.updated_at # call.row.updated_at

(* C21: on the stored row, 'open' and 'closed' change window_state and
   updated_at only, 'mode' changes mode and updated_at only, 'reset' sets
   last_notification_type and last_notification_time to nothing and changes
   updated_at only besides, 'status' changes nothing; and no command
   touches the temperature readings or the notifications. *)
C21_AdminNarrowEffects ==
    [][inv'.op = "admin" =>
          LET argv == inv'.argv
              command == IF Len(argv) > 0 THEN lower(argv[1]) ELSE ""
          IN  /\ temperature_readings' = temperature_readings
              /\ notifications' = notifications
              /\ (command = "status") => app_state' = app_state
              /\ (command \in {"open", "closed"} /\ app_state.exists) =>
                    app_state' = [app_state EXCEPT !.window_state = command,
                                                   !.updated_at = inv'.now]
              /\ (command = "mode" /\ inv'.exit_code = 0 /\ app_state.exists) =>
                    app_state' = [app_state EXCEPT !.mode = lower(argv[2]),
                                                   !.updated_at = inv'.now]
              /\ (command = "reset" /\ app_state.exists) =>
                    app_state' = [app_state EXCEPT
                                     !.last_notification_type = None,
                                     !.last_notification_time = NoTime,
                                     !.updated_at = inv'.now]]_vars

C21_Witness ==
    /\ inv.op = "admin"
    /\ inv.argv = <<"open">>
    /\ inv.now = hms(12, 30, 0)
    /\ app_state = Row("open", "heating", "close_windows", hms(12, 0, 0), hms(12, 30, 0))
    /\ temperature_readings = OneReading
    /\ notifications = OneNotification

(* C22: in the first invocation after 'reset', outside quiet hours, every
   proposed notification is sent, however short the time since the last
   notification and whatever its type was. *)
C22_ResetUnblocks ==
    (/\ call.fn = "reset_then_check"
     /\ call.proposed # None
     /\ ~QuietAt(call.now)) =>
        /\ call.row.last_notification_type = None
        /\ call.row.last_notification_time = NoTime
        /\ call.sent
        /\ call.recorded = 1

C22_Witness ==
    /\ call.fn = "reset_then_check"
    /\ ~QuietAt(call.now)
    /\ call.st.window_state = "open"
    /\ call.st.last_notification_type = "close_windows"
    /\ call.proposed = "close_windows"
    /\ call.now - call.st.last_notification_time = 1
    /\ call.sent /\ call.answer
    /\ call.out.last_notification_time = call.now

(* C23: a command line without a command, with an unknown command, with
   'mode' and no value, or with 'mode' and a value other than cooling and
   heating prints a message, exits with a code other than 0, and leaves
   the state row, the temperature readings and the notifications as they
   were. *)
C23_MalformedAdminCommand ==
    [][(inv'.op = "admin" /\ inv'.argv \in MalformedArgvs) =>
          /\ inv'.exit_code # 0
          /\ inv'.output # ""
          /\ app_state' = app_state
          /\ temperature_readings' = temperature_readings
          /\ notifications' = notifications]_vars

C23_Witness ==
    /\ inv.op = "admin"
    /\ inv.argv = <<"mode">>
    /\ inv.exit_code = 1
    /\ inv.output = "Invalid command"
    /\ app_state.exists
    /\ app_state.mode = "heating"

(* The marker glyphs of the messages of a mode *)
Glyphs(mode) ==
    IF mode = "cooling" THEN {"thermometer", "wind face"}
    ELSE {"cold face", "sun"}

(* C24: the message for a notification type, a mode and a snapshot has a
   marker glyph and a rationale that the message of no other of the four
   (type, mode) pairs has, for the same snapshot; it carries the current
   temperature and the daily high of the snapshot; and the message an
   invocation sends and records is the one for the type it proposed and
   the mode of the state it loaded. *)
C24_MessageComposition ==
    /\ call.fn = "create_notification_message" =>
          /\ \A nt \in NotificationTypes, mode \in Modes :
                (nt # call.proposed \/ mode # call.args[1]) =>
                   LET other == create_notification_message(nt, call.weather_data, mode)
                   IN  /\ other.emoji # call.msg.emoji
                       /\ other.reason # call.msg.reason
          /\ call.msg.emoji \in Glyphs(call.args[1])
          /\ call.msg.title = (IF call.proposed = "close_windows" THEN "Close" ELSE "Open")
          /\ call.msg.current_temp = call.weather_data.current_temp
          /\ call.msg.daily_high = call.weather_data.daily_high
    /\ (call.fn = "check_and_notify" /\ call.sent) =>
          /\ call.msg.emoji \in Glyphs(call.st.mode)
          /\ call.msg.title = (IF call.proposed = "close_windows" THEN "Close" ELSE "Open")
          /\ call.msg.current_temp = call.weather_data.current_temp
          /\ call.msg.daily_high = call.weather_data.daily_high
          /\ call.msg = create_notification_message(call.proposed, call.weather_data,
                                                    call.st.mode)

C24_Witness ==
    /\ call.fn = "check_and_notify"
    /\ call.sent
    /\ call.st.mode = "heating"
    /\ call.proposed = "open_windows"
    /\ call.msg.emoji = "sun"
    /\ call.msg.reason = "Nice and warm! Perfect time to open the windows."
    /\ call.msg.current_temp = 66
    /\ call.msg.daily_high = 69

(* C25: an exception that a store operation raises during check_and_notify
   ends the run at that operation, leaves main, and is logged by main
   once; a run in which no store operation raises logs no such error and
   returns. *)
C25_StoreErrorsPropagate ==
    [][inv'.op = "check" =>
          LET fault == inv'.fault
              called == \/ fault \in {"record_temperature", "get_app_state"}
                           /\ inv'.fetched_ok
                        \/ fault = "record_notification" /\ inv'.sent
                        \/ fault = "update_app_state" /\ inv'.success
          IN  /\ called =>
                    /\ inv'.raised
                    /\ inv'.logged = 1
                    /\ inv'.calls[Len(inv'.calls)] = fault
                    /\ Count(inv'.calls, fault) = 1
              /\ ~called => ~inv'.raised /\ inv'.logged = 0]_vars

C25_Witness ==
    /\ inv.op = "check"
    /\ inv.fault = "update_app_state"
    /\ inv.raised
    /\ inv.logged = 1
    /\ inv.success
    /\ notifications.count = 1
    /\ notifications.last.sent_successfully
    /\ app_state.last_notification_type = None

(* C26: fetch_weather_data returns no weather data, and raises nothing,
   when the zip code is empty, when the geocoding request or the forecast
   request ends in an exception, in a status other than 200 or in a body
   it cannot read; it returns the snapshot when both requests succeed; and
   send_message returns false when its request ends in an exception or in
   a status other than 200. *)
C26_FailuresAreValues ==
    /\ call.fn = "fetch_weather_data" =>
          LET zip_code == call.args[1]
              geo == call.args[2]
              api == call.args[3]
          IN  /\ ~call.raised
              /\ (zip_code = "" \/ geo # "200" \/ api # "200") =>
                    ~call.answer /\ call.weather_data = NoWeatherData
              /\ (zip_code # "" /\ geo = "200" /\ api = "200") =>
                    call.answer /\ call.weather_data = call.args[4]
    /\ call.fn = "send_message" =>
          /\ call.args[3] # "200" => ~call.answer
          /\ call.answer =>
                call.args[3] = "200" /\ call.args[1] # "" /\ call.args[2] # ""

C26_Witness ==
    /\ call.fn = "fetch_weather_data"
    /\ call.args[1] = "10001"
    /\ call.args[2] = "200"
    /\ call.args[3] = "500"
    /\ ~call.answer
    /\ ~call.raised
    /\ call.weather_data = NoWeatherData

(* C27: with the token or the chat id missing, send_message returns false
   and makes no request; an invocation that reaches the send with such a
   configuration inserts one notification row with sent_successfully false
   and leaves the state row as it was. *)
C27_MissingCredentials ==
    /\ (call.fn = "send_message" /\ (call.args[1] = "" \/ call.args[2] = "")) =>
          ~call.answer /\ call.requests = <<>>
    /\ (call.fn = "send_message" /\ call.args[1] # "" /\ call.args[2] # "") =>
          Len(call.requests) = 1
    /\ (call.fn = "check_no_credentials" /\ call.sent) =>
          /\ ~call.answer
          /\ call.requests = <<>>
          /\ call.recorded = 1
          /\ call.notification.sent_successfully = FALSE
          /\ call.notification.notification_type = call.proposed
          /\ ~call.changed

C27_Witness ==
    /\ call.fn = "check_no_credentials"
    /\ call.args = <<"test_token", "", "200">>
    /\ call.sent
    /\ ~call.answer
    /\ call.recorded = 1
    /\ call.notification.sent_successfully = FALSE
    /\ call.proposed = "close_windows"
    /\ call.st.window_state = "open"

(* C28: an invocation that sends composes the message, then calls
   send_message, then inserts one notification row holding that message
   and what send_message returned, and after that, when send_message
   returned true and only then, updates the state row; and every
   invocation inserts as many notification rows as it calls send_message. *)
C28_CommitProtocolOrder ==
    [][inv'.op = "check" =>
          LET calls == inv'.calls
              from == First(calls, "create_notification_message")
          IN  /\ notifications'.count - notifications.count
                    = Count(calls, "send_message")
              /\ Count(calls, "record_notification") = Count(calls, "send_message")
              /\ Count(calls, "update_app_state") = (IF inv'.success THEN 1 ELSE 0)
              /\ inv'.sent =>
                    /\ from > 0
                    /\ SubSeq(calls, from, Len(calls)) =
                          <<"create_notification_message", "send_message",
                            "record_notification">>
                             \o (IF inv'.success THEN <<"update_app_state">> ELSE <<>>)
                    /\ notifications'.last.message =
                          create_notification_message(inv'.notification_type,
                                                      inv'.weather_data,
                                                      get_app_state(app_state, config.default_mode).mode)
                    /\ notifications'.last.sent_successfully = inv'.success
              /\ ~inv'.sent => from = 0]_vars

C28_Witness ==
    /\ inv.op = "check"
    /\ inv.sent /\ ~inv.success
    /\ notifications.count = 2
    /\ notifications.last.sent_successfully = FALSE
    /\ notifications.last.message.emoji = "cold face"
    /\ Count(inv.calls, "update_app_state") = 0
    /\ inv.calls[Len(inv.calls)] = "record_notification"

(* C29: after a successful send, the last_notification_time of the state
   row is the instant time_provider.now() gave the invocation, the one
   quiet hours and the duplicate window were judged against. *)
C29_CommitTimeIsClockNow ==
    [][(inv'.op = "check" /\ inv'.success) =>
          app_state'.last_notification_time = inv'.now]_vars

(* C30: when a run of temp_checker.py updates the state row, what the
   admin utility changed window_state or mode to since the run read the
   row is still there afterwards. *)
C30_NoLostUpdates ==
    [][\A p \in Procs :
          (runs[p].pc = "commit" /\ runs'[p].pc = "done") =>
             /\ runs[p].admin_window # None =>
                   app_state'.window_state = runs[p].admin_window
             /\ runs[p].admin_mode # None =>
                   app_state'.mode = runs[p].admin_mode]_vars

---------------------------------------------------------------------------
(* Properties of sequences of runs *)

(* C31: with the default thresholds (open_windows_temp 76 below
   close_windows_temp 78, heating_close_temp 55 below heating_open_temp 65),
   runs made one after the other in one mode that all observe the same
   snapshot send at most one notification successfully and change
   window_state at most once. *)
C31_NoFlapping ==
    /\ Len(hist.sends) <= 1
    /\ hist.flips <= 1

(* Three runs on one snapshot: one of them sent and moved the windows, and
   the last one, on the same snapshot, proposed nothing. *)
C31_Witness ==
    /\ hist.invocations = 3
    /\ Len(hist.sends) = 1
    /\ hist.flips = 1
    /\ hist.observed # {}
    /\ inv.op = "check" /\ inv.fetched_ok
    /\ inv.notification_type = None
    /\ app_state.window_state = Implied(hist.sends[1].type)

(* C32: every run ends, and it ends in one of three ways: it completes
   through the terminate step, it aborts at the weather-fetch step without
   an exception, or a store operation raises and the exception leaves main
   at that call.  No call is made twice in a run. *)
C32_Termination ==
    /\ <>(runs[TheRun].pc = "ended")
    /\ [](LET r == runs[TheRun]
          IN  /\ \A i, j \in DOMAIN r.steps : r.steps[i] = r.steps[j] => i = j
              /\ r.pc = "ended" =>
                    \/ /\ r.ended = "completed"
                       /\ r.steps[1] = "fetch_weather_data"
                       /\ r.steps[Len(r.steps)] = "terminate"
                    \/ /\ r.ended = "aborted"
                       /\ r.steps = <<"fetch_weather_data">>
                    \/ /\ r.ended = "raised"
                       /\ r.fault \in StoreOps
                       /\ r.steps[Len(r.steps)] = r.fault)

(* A run that sent successfully and ended at update_app_state raising. *)
C32_Witness ==
    /\ runs[TheRun].pc = "ended"
    /\ runs[TheRun].ended = "raised"
    /\ runs[TheRun].success
    /\ runs[TheRun].steps[Len(runs[TheRun].steps)] = "update_app_state"
    /\ notifications.count = 1
    /\ app_state.last_notification_type # runs[TheRun].notification_type

(* C32 as stated: a run that has ended either completed through the
   terminate step or aborted at the weather-fetch step. *)
C32_TwoWaysToEnd ==
    runs[TheRun].pc = "ended" => runs[TheRun].ended \in {"completed", "aborted"}

(* C33: in a sequence of runs and admin overrides of window_state or mode
   (no reset), two successful sends of the same notification type are at
   least 30 minutes apart, also when a notification of the other type was
   sent between them. *)
C33_RateLimitAcrossRuns ==
    \A i, j \in DOMAIN hist.sends :
        (i < j /\ hist.sends[i].type = hist.sends[j].type)
            => hist.sends[j].time - hist.sends[i].time >= DUPLICATE_WINDOW_SECONDS

(* C34: in every state reached from the default record by runs of the
   engine alone, a last_notification_type that is set goes with the
   window_state that type commands; the successful notifications alternate
   between the two types; and a proposal the gate refuses is refused for
   quiet hours, never as a duplicate. *)
C34_TypeImpliesPosition ==
    /\ app_state.last_notification_type # None
          => app_state.window_state = Implied(app_state.last_notification_type)
    /\ \A i \in DOMAIN hist.sends :
          i > 1 => hist.sends[i].type # hist.sends[i - 1].type
    /\ (inv.op = "check" /\ inv.gate_asked /\ ~inv.gate)
          => is_quiet_hours(config, inv.now)

(* Three successful sends within 30 minutes, open, close, open, the last
   one 20 minutes after the first of its type. *)
C34_Witness ==
    /\ Len(hist.sends) = 3
    /\ hist.sends[1].type = "open_windows"
    /\ hist.sends[3].type = "open_windows"
    /\ hist.sends[3].time - hist.sends[1].time = 1200
    /\ app_state.last_notification_type = "open_windows"
    /\ app_state.window_state = "open"

---------------------------------------------------------------------------
(* Properties of overlapping runs and of runs on a store that raises *)

(* C35: two overlapping runs that loaded the same state and observed the
   same snapshot do not both send the notification of one type
   successfully.  A run is at its commit exactly when its send succeeded. *)
C35_OneSendPerTransition ==
    ~ \E p, q \in Procs :
          /\ p # q
          /\ runs[p].pc = "commit" /\ runs[q].pc = "commit"
          /\ runs[p].st = runs[q].st
          /\ runs[p].weather_data = runs[q].weather_data
          /\ runs[p].notification_type = runs[q].notification_type

(* C36: when send_message reported success in a run, the state row holds
   the commanded window_state and the sent type once the run has ended,
   also when record_notification raised (update_app_state itself being
   able to write). *)
C36_SuccessIsCommitted ==
    (inv.op = "check" /\ inv.success /\ inv.fault # "update_app_state")
        => /\ app_state.window_state = Implied(inv.notification_type)
           /\ app_state.last_notification_type = inv.notification_type

---------------------------------------------------------------------------
(* Properties of a run in a mode that is not a mode, and of the quiet window
   to the second *)

(* C37: a run whose loaded mode is neither 'cooling' nor 'heating' records
   the reading, proposes nothing, asks no gate, sends nothing, inserts no
   notification row and leaves the state row as it is. *)
C37_UnknownModeNoProposal ==
    [][(/\ inv'.op = "check" /\ inv'.fetched_ok
        /\ get_app_state(app_state, config.default_mode).mode \notin Modes)
       => /\ temperature_readings'.count = temperature_readings.count + 1
          /\ temperature_readings'.last =
                 ReadingOf(inv'.weather_data.current_temp,
                           inv'.weather_data.daily_high,
                           inv'.weather_data.daily_low)
          /\ inv'.notification_type = None
          /\ ~inv'.gate_asked /\ ~inv'.sent
          /\ Count(inv'.calls, "send_message") = 0
          /\ notifications' = notifications
          /\ app_state' = app_state]_vars

(* DEFAULT_MODE=auto and no state row, at noon: the second run on a cold
   snapshot, which opens the windows in cooling mode, has recorded its
   reading and done nothing else. *)
C37_Witness ==
    /\ inv.op = "check" /\ inv.fetched_ok
    /\ inv.now = hms(12, 0, 0)
    /\ ~app_state.exists
    /\ config.default_mode = "auto"
    /\ inv.weather_data = WeatherData(50, 60, 40)
    /\ temperature_readings.count = 2
    /\ inv.notification_type = None
    /\ notifications.count = 0

(* C38: is_quiet_hours compares the time of day to the second with start
   and end at second 0 of their minutes: the instant end hh:mm:00 is quiet,
   a later instant of that minute is not; and when start equals end, that
   one instant of the day is the only quiet one. *)
C38_QuietToTheSecond ==
    call.fn = "is_quiet_hours" =>
        LET tod == call.now % SecondsPerDay
        IN  /\ tod = QuietEnd => call.answer
            /\ (tod > QuietEnd /\ tod < QuietEnd + 60) => ~call.answer
            /\ QuietStart = QuietEnd => (call.answer <=> tod = QuietStart)

(* Start and end both 12:00: thirty seconds past noon of the second day is
   not quiet. *)
C38_Witness ==
    /\ call.fn = "is_quiet_hours"
    /\ config = OtherConfig(12, 0, 12, 0)
    /\ call.now = SecondsPerDay + hms(12, 0, 30)
    /\ ~call.answer

====
